---- MODULE Spec2Model ----
(***************************************************************************)
(* Business-card text extraction (src/src/utils/ocrProcessor.ts,           *)
(* parseCardData).  A JavaScript string is a sequence of one-character     *)
(* strings; regular expressions are run by a backtracking matcher with     *)
(* the priorities of the ECMAScript matcher (greedy quantifiers, leftmost  *)
(* match).                                                                 *)
(***************************************************************************)
EXTENDS Integers, Sequences, FiniteSets, TLC

VARIABLES
  text,               \* parseCardData's first argument
  imageArg,           \* the optional second argument: <<>> when omitted, else <<imageData>>
  pc,                 \* the block of parseCardData that runs next
  lines,
  emails,
  phones,
  websiteFromText,
  companyFromWebsite,
  companyFromEmail,
  websiteFromEmail,
  emailUsername,
  potentialNames,
  name,
  designation,
  cleanPhones,
  company,
  finalWebsite,
  address,
  result,             \* the returned record, <<>> before the return
  cards,              \* the page's list of cards
  isProcessing,       \* the page's processing flag
  processingQueue,    \* the page's count of captures in flight
  calls,              \* the calls of handleImageCapture, each with its position
  now,                \* Date.now(), in milliseconds
  user,               \* the AuthProvider's user: an e-mail address or NoUser
  storedCoupon,       \* localStorage's 'bcs_coupon': <<>> when absent, else <<record>>
  currentDate,        \* new Date(), in ticks
  machineId,          \* what getMachineId returns now
  signup,             \* the sign-up form and the position of its handleSubmit
  loading,            \* the sign-up form's loading flag
  route,              \* what the router shows: "/", "/login" or the protected page
  toast               \* the title of the last toast shown, "none" before the first

\* the variables of a call of parseCardData
parserVars ==
  <<text, imageArg, pc, lines, emails, phones, websiteFromText, companyFromWebsite,
    companyFromEmail, websiteFromEmail, emailUsername, potentialNames, name,
    designation, cleanPhones, company, finalWebsite, address, result>>

\* the variables of the page
pageVars == <<cards, isProcessing, processingQueue, calls, now>>

\* the variables of sign-up and of the protected route
authVars == <<user, storedCoupon, currentDate, machineId, signup, loading, route, toast>>

vars == <<parserVars, pageVars, authVars>>

(***************************************************************************)
(* Characters and character classes                                        *)
(***************************************************************************)
UpperSeq ==
  <<"A","B","C","D","E","F","G","H","I","J","K","L","M","N","O","P","Q","R","S","T","U","V","W","X","Y","Z">>

LowerSeq ==
  <<"a","b","c","d","e","f","g","h","i","j","k","l","m","n","o","p","q","r","s","t","u","v","w","x","y","z">>

Upper == {UpperSeq[i] : i \in 1..26}

Lower == {LowerSeq[i] : i \in 1..26}

Digit == {"0","1","2","3","4","5","6","7","8","9"}

\* \w
WordCh == Upper \cup Lower \cup Digit \cup {"_"}

\* \s (the members of the class that occur in the modelled alphabet)
Space == {" ", "\n", "\t", "\r"}

\* every character the model's inputs and keyword tables are written in
\* (the backquote, which no input contains, is left out of the classes)
Punct ==
  {"!","@","#","$","%","^","&","*","(",")",",",".","?","\"",":","{","}","|","<",">",
   "~","'","/","-","\\",";","[","]","=","+","_"}

Alphabet == Upper \cup Lower \cup Digit \cup Space \cup Punct

ToLowerMap == [c \in Upper |-> LowerSeq[CHOOSE i \in 1..26 : UpperSeq[i] = c]]

ToUpperMap == [c \in Lower |-> UpperSeq[CHOOSE i \in 1..26 : LowerSeq[i] = c]]

lowerCh(c) == IF c \in Upper THEN ToLowerMap[c] ELSE c

upperCh(c) == IF c \in Lower THEN ToUpperMap[c] ELSE c

toLowerCase(s) == [i \in 1..Len(s) |-> lowerCh(s[i])]

toUpperCase(s) == [i \in 1..Len(s) |-> upperCh(s[i])]

(***************************************************************************)
(* String.prototype helpers                                                *)
(***************************************************************************)
\* s.includes(sub)
includes(s, sub) ==
  \E i \in 1..(Len(s) - Len(sub) + 1) : \A j \in 1..Len(sub) : s[i + j - 1] = sub[j]

\* s.startsWith(sub)
startsWith(s, sub) ==
  Len(sub) <= Len(s) /\ \A j \in 1..Len(sub) : s[j] = sub[j]

\* s.replace(/[class]/g, '')
removeAll(s, class) == SelectSeq(s, LAMBDA c : c \notin class)

\* s.trim()
trim(s) ==
  LET keep == {i \in 1..Len(s) : s[i] \notin Space}
  IN  IF keep = {} THEN <<>>
      ELSE SubSeq(s, CHOOSE i \in keep : \A j \in keep : i <= j,
                     CHOOSE i \in keep : \A j \in keep : i >= j)

\* s.replace(/\s+/g, ' '): the first character of every whitespace run stays, as a space
collapseSpace(s) ==
  LET kept == SelectSeq([i \in 1..Len(s) |-> i],
                        LAMBDA i : s[i] \notin Space \/ i = 1 \/ s[i - 1] \notin Space)
  IN  [k \in 1..Len(kept) |-> IF s[kept[k]] \in Space THEN " " ELSE s[kept[k]]]

\* s.split(sep) for a one-character separator
RECURSIVE split(_, _)
split(s, sep) ==
  IF \A i \in 1..Len(s) : s[i] # sep THEN <<s>>
  ELSE LET k == CHOOSE i \in 1..Len(s) : s[i] = sep /\ \A j \in 1..(i - 1) : s[j] # sep
       IN  <<SubSeq(s, 1, k - 1)>> \o split(SubSeq(s, k + 1, Len(s)), sep)

\* xs.some(x => s.includes(x))
someIncluded(s, xs) == \E k \in 1..Len(xs) : includes(s, xs[k])

\* xs.map(x => x.toLowerCase())
lowerAll(xs) == [k \in 1..Len(xs) |-> toLowerCase(xs[k])]

\* xs.map(x => x.trim())
trimAll(xs) == [k \in 1..Len(xs) |-> trim(xs[k])]

\* Array.from(new Set(xs)): first occurrences, in order
RECURSIVE dedupe(_)
dedupe(xs) ==
  IF xs = <<>> THEN <<>>
  ELSE LET init == dedupe(SubSeq(xs, 1, Len(xs) - 1))
           last == xs[Len(xs)]
       IN  IF \E k \in 1..Len(init) : init[k] = last THEN init ELSE Append(init, last)

(***************************************************************************)
(* Regular expressions: a pattern is a sequence of items.                  *)
(*   class item  : a character class repeated lo..hi times, greedy         *)
(*   group item  : a sub-pattern repeated lo..hi times, greedy             *)
(*   open/close  : the bounds of capture group 1                           *)
(*   end         : the assertion $                                         *)
(***************************************************************************)
Inf == 1000000

Rep(class, lo, hi) == [t |-> "class", s |-> class, lo |-> lo, hi |-> hi, xs |-> <<>>]

One(class) == Rep(class, 1, 1)

Plus(class) == Rep(class, 1, Inf)

Group(xs, lo, hi) == [t |-> "group", s |-> {}, lo |-> lo, hi |-> hi, xs |-> xs]

Opt(xs) == Group(xs, 0, 1)

Open == [t |-> "open", s |-> {}, lo |-> 0, hi |-> 0, xs |-> <<>>]

Close == [t |-> "close", s |-> {}, lo |-> 0, hi |-> 0, xs |-> <<>>]

\* $
End == [t |-> "end", s |-> {}, lo |-> 0, hi |-> 0, xs |-> <<>>]

\* a literal, under the i flag
LitI(s) == [k \in 1..Len(s) |-> One({lowerCh(s[k]), upperCh(s[k])})]

Fail == <<-1, 0, 0>>

Dec(n) == IF n = 0 THEN 0 ELSE n - 1

\* run pattern xs on s from position i (1-based index of the next character);
\* the result is <<end, capture start, capture end>> of the first successful
\* path in backtracking order, or Fail
RECURSIVE Run(_, _, _, _)
Run(xs, s, i, cap) ==
  IF xs = <<>> THEN <<i, cap[1], cap[2]>>
  ELSE LET h == Head(xs)
           rest == Tail(xs)
           again == <<[h EXCEPT !.lo = Dec(h.lo), !.hi = h.hi - 1]>> \o rest
       IN  CASE h.t = "open" -> Run(rest, s, i, <<i, cap[2]>>)
             [] h.t = "close" -> Run(rest, s, i, <<cap[1], i>>)
             [] h.t = "end" -> IF i = Len(s) + 1 THEN Run(rest, s, i, cap) ELSE Fail
             [] h.t = "class" ->
                  LET more == IF h.hi > 0 /\ i <= Len(s) /\ s[i] \in h.s
                              THEN Run(again, s, i + 1, cap) ELSE Fail
                  IN  IF more # Fail THEN more
                      ELSE IF h.lo = 0 THEN Run(rest, s, i, cap) ELSE Fail
             [] h.t = "group" ->
                  LET more == IF h.hi > 0 THEN Run(h.xs \o again, s, i, cap) ELSE Fail
                  IN  IF more # Fail THEN more
                      ELSE IF h.lo = 0 THEN Run(rest, s, i, cap) ELSE Fail

\* regex.exec(s) from position from: <<start, end, capture start, capture end>>
\* of the leftmost match, or <<0>> when there is none
exec(xs, s, from) ==
  LET starts == {p \in from..(Len(s) + 1) : Run(xs, s, p, <<0, 0>>) # Fail}
      first == CHOOSE p \in starts : \A q \in starts : p <= q
  IN  IF starts = {} THEN <<0>> ELSE <<first>> \o Run(xs, s, first, <<0, 0>>)

\* s.match(regex) without the g flag: the matched text and capture group 1
matchFirst(xs, s) ==
  LET m == exec(xs, s, 1)
  IN  IF m = <<0>> THEN [found |-> FALSE, all |-> <<>>, g1 |-> <<>>]
      ELSE [found |-> TRUE, all |-> SubSeq(s, m[1], m[2] - 1),
            g1 |-> SubSeq(s, m[3], m[4] - 1)]

\* s.match(regex) with the g flag: every match, left to right, not overlapping
\* (no pattern of the program matches the empty string)
RECURSIVE matchAll(_, _, _)
matchAll(xs, s, from) ==
  LET m == exec(xs, s, from)
  IN  IF m = <<0>> THEN <<>>
      ELSE <<SubSeq(s, m[1], m[2] - 1)>> \o matchAll(xs, s, m[2])

(***************************************************************************)
(* parseCardData: patterns and keyword tables                              *)
(***************************************************************************)
\* /[\w.+-]+@[\w-]+\.[\w.-]+/gi
emailRegex ==
  <<Plus(WordCh \cup {".", "+", "-"}), One({"@"}), Plus(WordCh \cup {"-"}), One({"."}),
    Plus(WordCh \cup {".", "-"})>>

\* [-.\s]
PhoneSep == {"-", "."} \cup Space

\* /(\+?\d{1,4}[-.\s]?)?\(?\d{1,4}\)?[-.\s]?\d{1,4}[-.\s]?\d{1,4}[-.\s]?\d{1,9}/g
phoneRegex ==
  <<Opt(<<Rep({"+"}, 0, 1), Rep(Digit, 1, 4), Rep(PhoneSep, 0, 1)>>),
    Rep({"("}, 0, 1), Rep(Digit, 1, 4), Rep({")"}, 0, 1), Rep(PhoneSep, 0, 1),
    Rep(Digit, 1, 4), Rep(PhoneSep, 0, 1), Rep(Digit, 1, 4), Rep(PhoneSep, 0, 1),
    Rep(Digit, 1, 9)>>

\* (https?:\/\/)? under the i flag
ProtocolOpt == Opt(LitI(<<"h","t","t","p">>) \o <<Rep({"s", "S"}, 0, 1)>> \o LitI(<<":","/","/">>))

\* (www\.)? under the i flag
WwwOpt == Opt(LitI(<<"w","w","w",".">>))

\* /((https?:\/\/)?(www\.)?[\w-]+\.[\w.-]+)/gi
websiteRegex ==
  <<ProtocolOpt, WwwOpt, Plus(WordCh \cup {"-"}), One({"."}), Plus(WordCh \cup {".", "-"})>>

\* /(?:www\.)?([\w-]+)\./i
domainLabelRegex == <<WwwOpt, Open, Plus(WordCh \cup {"-"}), Close, One({"."})>>

\* /(?:https?:\/\/)?(?:www\.)?([^\s]+)/i
domainMatchRegex == <<ProtocolOpt, WwwOpt, Open, Plus(Alphabet \ Space), Close>>

\* /^[A-Z][a-z]+(\s[A-Z][a-z]+)*$/
properlyCapitalizedRegex ==
  <<One(Upper), Plus(Lower), Group(<<One(Space), One(Upper), Plus(Lower)>>, 0, Inf), End>>

\* /[\+]?[\d\s\-\(\)]{7,20}/g
potentialPhoneRegex == <<Rep({"+"}, 0, 1), Rep(Digit \cup Space \cup {"-", "(", ")"}, 7, 20)>>

\* /[!@#$%^&*(),.?":{}|<>]/
SpecialChars ==
  {"!","@","#","$","%","^","&","*","(",")",",",".","?","\"",":","{","}","|","<",">"}

\* /[!*~"'/\-\\(),.?;:#^&[\]{}|<>`=+_]/g  (cleanText)
JunkChars ==
  {"!","*","~","\"","'","/","-","\\","(",")",",",".","?",";",":","#","^","&","[","]",
   "{","}","|","<",">","=","+","_"}

\* /[!*~"'/\-\\(),?;:#^&[\]{}|<>`=+_]/g  (cleanWebsite)
WebsiteJunkChars == JunkChars \ {"."}

designationKeywords ==
  << <<"C","h","a","i","r","m","a","n">>,
     <<"C","h","a","i","r","p","e","r","s","o","n">>,
     <<"C","E","O">>,
     <<"C","h","i","e","f"," ","E","x","e","c","u","t","i","v","e"," ","O","f","f","i","c","e","r">>,
     <<"P","r","e","s","i","d","e","n","t">>,
     <<"C","O","O">>,
     <<"C","h","i","e","f"," ","O","p","e","r","a","t","i","n","g"," ","O","f","f","i","c","e","r">>,
     <<"C","F","O">>,
     <<"C","h","i","e","f"," ","F","i","n","a","n","c","i","a","l"," ","O","f","f","i","c","e","r">>,
     <<"C","I","O">>,
     <<"C","h","i","e","f"," ","I","n","f","o","r","m","a","t","i","o","n"," ","O","f","f","i","c","e","r">>,
     <<"C","T","O">>,
     <<"C","h","i","e","f"," ","T","e","c","h","n","o","l","o","g","y"," ","O","f","f","i","c","e","r">>,
     <<"C","M","O">>,
     <<"C","h","i","e","f"," ","M","a","r","k","e","t","i","n","g"," ","O","f","f","i","c","e","r">>,
     <<"C","H","R","O">>,
     <<"C","h","i","e","f"," ","H","u","m","a","n"," ","R","e","s","o","u","r","c","e","s"," ","O","f","f","i","c","e","r">>,
     <<"C","S","O">>,
     <<"C","h","i","e","f"," ","S","t","r","a","t","e","g","y"," ","O","f","f","i","c","e","r">>,
     <<"C","P","O">>,
     <<"C","h","i","e","f"," ","P","r","o","d","u","c","t"," ","O","f","f","i","c","e","r">>,
     <<"C","L","O">>,
     <<"C","h","i","e","f"," ","L","e","g","a","l"," ","O","f","f","i","c","e","r">>,
     <<"C","A","O">>,
     <<"C","h","i","e","f"," ","A","d","m","i","n","i","s","t","r","a","t","i","v","e"," ","O","f","f","i","c","e","r">>,
     <<"V","i","c","e"," ","P","r","e","s","i","d","e","n","t">>,
     <<"V","P">>,
     <<"D","i","r","e","c","t","o","r">>,
     <<"S","e","n","i","o","r"," ","M","a","n","a","g","e","r">>,
     <<"M","a","n","a","g","e","r">>,
     <<"A","s","s","i","s","t","a","n","t"," ","M","a","n","a","g","e","r">>,
     <<"T","e","a","m"," ","L","e","a","d">>,
     <<"S","u","p","e","r","v","i","s","o","r">>,
     <<"E","x","e","c","u","t","i","v","e">>,
     <<"A","s","s","o","c","i","a","t","e">>,
     <<"C","o","o","r","d","i","n","a","t","o","r">>,
     <<"A","s","s","i","s","t","a","n","t">>,
     <<"I","n","t","e","r","n">>,
     <<"T","r","a","i","n","e","e">>,
     <<"S","o","f","t","w","a","r","e"," ","E","n","g","i","n","e","e","r">>,
     <<"S","e","n","i","o","r"," ","S","o","f","t","w","a","r","e"," ","E","n","g","i","n","e","e","r">>,
     <<"L","e","a","d"," ","D","e","v","e","l","o","p","e","r">>,
     <<"P","r","i","n","c","i","p","a","l"," ","E","n","g","i","n","e","e","r">>,
     <<"S","o","l","u","t","i","o","n","s"," ","A","r","c","h","i","t","e","c","t">>,
     <<"C","l","o","u","d"," ","A","r","c","h","i","t","e","c","t">>,
     <<"D","e","v","O","p","s"," ","E","n","g","i","n","e","e","r">>,
     <<"D","a","t","a"," ","E","n","g","i","n","e","e","r">>,
     <<"M","L"," ","E","n","g","i","n","e","e","r">>,
     <<"A","I"," ","E","n","g","i","n","e","e","r">>,
     <<"D","a","t","a"," ","A","n","a","l","y","s","t">>,
     <<"B","u","s","i","n","e","s","s"," ","A","n","a","l","y","s","t">>,
     <<"D","a","t","a"," ","S","c","i","e","n","t","i","s","t">>,
     <<"A","I"," ","R","e","s","e","a","r","c","h","e","r">>,
     <<"B","I"," ","D","e","v","e","l","o","p","e","r">>,
     <<"P","r","o","d","u","c","t"," ","M","a","n","a","g","e","r">>,
     <<"P","r","o","d","u","c","t"," ","O","w","n","e","r">>,
     <<"P","r","o","g","r","a","m"," ","M","a","n","a","g","e","r">>,
     <<"S","c","r","u","m"," ","M","a","s","t","e","r">>,
     <<"P","r","o","j","e","c","t"," ","M","a","n","a","g","e","r">>,
     <<"I","T"," ","S","u","p","p","o","r","t"," ","E","n","g","i","n","e","e","r">>,
     <<"S","y","s","t","e","m","s"," ","A","d","m","i","n","i","s","t","r","a","t","o","r">>,
     <<"N","e","t","w","o","r","k"," ","E","n","g","i","n","e","e","r">>,
     <<"C","y","b","e","r","s","e","c","u","r","i","t","y"," ","A","n","a","l","y","s","t">>,
     <<"S","e","c","u","r","i","t","y"," ","A","r","c","h","i","t","e","c","t">>,
     <<"P","l","a","n","t"," ","M","a","n","a","g","e","r">>,
     <<"P","r","o","d","u","c","t","i","o","n"," ","M","a","n","a","g","e","r">>,
     <<"Q","u","a","l","i","t","y"," ","C","o","n","t","r","o","l"," ","O","f","f","i","c","e","r">>,
     <<"Q","A","/","Q","C"," ","E","n","g","i","n","e","e","r">>,
     <<"M","a","i","n","t","e","n","a","n","c","e"," ","E","n","g","i","n","e","e","r">>,
     <<"M","a","n","u","f","a","c","t","u","r","i","n","g"," ","E","n","g","i","n","e","e","r">>,
     <<"M","a","c","h","i","n","e"," ","O","p","e","r","a","t","o","r">>,
     <<"L","i","n","e"," ","S","u","p","e","r","v","i","s","o","r">>,
     <<"P","r","o","c","e","s","s"," ","E","n","g","i","n","e","e","r">>,
     <<"I","n","v","e","s","t","m","e","n","t"," ","B","a","n","k","e","r">>,
     <<"F","i","n","a","n","c","i","a","l"," ","A","n","a","l","y","s","t">>,
     <<"P","o","r","t","f","o","l","i","o"," ","M","a","n","a","g","e","r">>,
     <<"L","o","a","n"," ","O","f","f","i","c","e","r">>,
     <<"B","r","a","n","c","h"," ","M","a","n","a","g","e","r">>,
     <<"R","e","l","a","t","i","o","n","s","h","i","p"," ","M","a","n","a","g","e","r">>,
     <<"A","c","t","u","a","r","y">>,
     <<"U","n","d","e","r","w","r","i","t","e","r">>,
     <<"C","l","a","i","m","s"," ","O","f","f","i","c","e","r">>,
     <<"A","u","d","i","t","o","r">>,
     <<"T","a","x"," ","C","o","n","s","u","l","t","a","n","t">>,
     <<"S","a","l","e","s"," ","E","x","e","c","u","t","i","v","e">>,
     <<"S","a","l","e","s"," ","M","a","n","a","g","e","r">>,
     <<"B","u","s","i","n","e","s","s"," ","D","e","v","e","l","o","p","m","e","n","t"," ","M","a","n","a","g","e","r">>,
     <<"K","e","y"," ","A","c","c","o","u","n","t"," ","M","a","n","a","g","e","r">>,
     <<"A","r","e","a"," ","S","a","l","e","s"," ","M","a","n","a","g","e","r">>,
     <<"R","e","g","i","o","n","a","l"," ","S","a","l","e","s"," ","M","a","n","a","g","e","r">>,
     <<"M","a","r","k","e","t","i","n","g"," ","E","x","e","c","u","t","i","v","e">>,
     <<"D","i","g","i","t","a","l"," ","M","a","r","k","e","t","i","n","g"," ","S","p","e","c","i","a","l","i","s","t">>,
     <<"S","E","O"," ","S","p","e","c","i","a","l","i","s","t">>,
     <<"B","r","a","n","d"," ","M","a","n","a","g","e","r">>,
     <<"C","o","n","t","e","n","t"," ","S","t","r","a","t","e","g","i","s","t">>,
     <<"H","R"," ","M","a","n","a","g","e","r">>,
     <<"H","R"," ","B","u","s","i","n","e","s","s"," ","P","a","r","t","n","e","r">>,
     <<"T","a","l","e","n","t"," ","A","c","q","u","i","s","i","t","i","o","n"," ","S","p","e","c","i","a","l","i","s","t">>,
     <<"R","e","c","r","u","i","t","m","e","n","t"," ","M","a","n","a","g","e","r">>,
     <<"H","R"," ","G","e","n","e","r","a","l","i","s","t">>,
     <<"E","m","p","l","o","y","e","e"," ","R","e","l","a","t","i","o","n","s"," ","M","a","n","a","g","e","r">>,
     <<"T","r","a","i","n","i","n","g"," ","&"," ","D","e","v","e","l","o","p","m","e","n","t"," ","M","a","n","a","g","e","r">>,
     <<"C","o","m","p","e","n","s","a","t","i","o","n"," ","&"," ","B","e","n","e","f","i","t","s"," ","A","n","a","l","y","s","t">>,
     <<"T","e","a","c","h","e","r">>,
     <<"L","e","c","t","u","r","e","r">>,
     <<"P","r","o","f","e","s","s","o","r">>,
     <<"A","c","a","d","e","m","i","c"," ","C","o","o","r","d","i","n","a","t","o","r">>,
     <<"P","r","i","n","c","i","p","a","l">>,
     <<"D","e","a","n">>,
     <<"T","r","a","i","n","e","r">>,
     <<"I","n","s","t","r","u","c","t","i","o","n","a","l"," ","D","e","s","i","g","n","e","r">>,
     <<"R","e","s","e","a","r","c","h"," ","S","c","h","o","l","a","r">>,
     <<"S","t","o","r","e"," ","M","a","n","a","g","e","r">>,
     <<"R","e","t","a","i","l"," ","A","s","s","o","c","i","a","t","e">>,
     <<"C","a","s","h","i","e","r">>,
     <<"S","a","l","e","s"," ","A","d","v","i","s","o","r">>,
     <<"H","o","t","e","l"," ","M","a","n","a","g","e","r">>,
     <<"F","r","o","n","t"," ","D","e","s","k"," ","E","x","e","c","u","t","i","v","e">>,
     <<"C","h","e","f">>,
     <<"H","o","u","s","e","k","e","e","p","i","n","g"," ","S","u","p","e","r","v","i","s","o","r">>,
     <<"T","r","a","v","e","l"," ","C","o","n","s","u","l","t","a","n","t">>,
     <<"T","o","u","r"," ","G","u","i","d","e">>,
     <<"S","u","p","p","l","y"," ","C","h","a","i","n"," ","M","a","n","a","g","e","r">>,
     <<"L","o","g","i","s","t","i","c","s"," ","C","o","o","r","d","i","n","a","t","o","r">>,
     <<"W","a","r","e","h","o","u","s","e"," ","M","a","n","a","g","e","r">>,
     <<"I","n","v","e","n","t","o","r","y"," ","A","n","a","l","y","s","t">>,
     <<"P","r","o","c","u","r","e","m","e","n","t"," ","M","a","n","a","g","e","r">>,
     <<"F","l","e","e","t"," ","M","a","n","a","g","e","r">>,
     <<"T","r","a","n","s","p","o","r","t"," ","S","u","p","e","r","v","i","s","o","r">>,
     <<"D","i","s","p","a","t","c","h","e","r">>,
     <<"C","i","v","i","l"," ","E","n","g","i","n","e","e","r">>,
     <<"S","i","t","e"," ","E","n","g","i","n","e","e","r">>,
     <<"P","r","o","j","e","c","t"," ","E","n","g","i","n","e","e","r">>,
     <<"A","r","c","h","i","t","e","c","t">>,
     <<"I","n","t","e","r","i","o","r"," ","D","e","s","i","g","n","e","r">>,
     <<"S","a","f","e","t","y"," ","O","f","f","i","c","e","r">>,
     <<"C","o","n","s","t","r","u","c","t","i","o","n"," ","S","u","p","e","r","v","i","s","o","r">>,
     <<"S","t","r","u","c","t","u","r","a","l"," ","E","n","g","i","n","e","e","r">>,
     <<"G","r","a","p","h","i","c"," ","D","e","s","i","g","n","e","r">>,
     <<"U","I","/","U","X"," ","D","e","s","i","g","n","e","r">>,
     <<"V","i","d","e","o"," ","E","d","i","t","o","r">>,
     <<"A","n","i","m","a","t","o","r">>,
     <<"C","r","e","a","t","i","v","e"," ","D","i","r","e","c","t","o","r">>,
     <<"C","o","p","y","w","r","i","t","e","r">>,
     <<"J","o","u","r","n","a","l","i","s","t">>,
     <<"P","h","o","t","o","g","r","a","p","h","e","r">>,
     <<"S","o","c","i","a","l"," ","M","e","d","i","a"," ","M","a","n","a","g","e","r">>,
     <<"P","e","t","r","o","l","e","u","m"," ","E","n","g","i","n","e","e","r">>,
     <<"D","r","i","l","l","i","n","g"," ","E","n","g","i","n","e","e","r">>,
     <<"G","e","o","l","o","g","i","s","t">>,
     <<"R","e","f","i","n","e","r","y"," ","O","p","e","r","a","t","o","r">>,
     <<"H","S","E"," ","O","f","f","i","c","e","r">>,
     <<"P","i","p","e","l","i","n","e"," ","E","n","g","i","n","e","e","r">>,
     <<"F","i","e","l","d"," ","T","e","c","h","n","i","c","i","a","n">>,
     <<"O","f","f","i","c","e","r">>,
     <<"I","n","s","p","e","c","t","o","r">>,
     <<"S","u","p","e","r","i","n","t","e","n","d","e","n","t">>,
     <<"D","i","r","e","c","t","o","r","-","G","e","n","e","r","a","l">>,
     <<"C","o","m","m","i","s","s","i","o","n","e","r">>,
     <<"S","p","e","c","i","a","l","i","s","t">>,
     <<"A","n","a","l","y","s","t">>,
     <<"C","l","e","r","k">>,
     <<"A","s","s","i","s","t","a","n","t">>,
     <<"L","a","w","y","e","r">>,
     <<"A","t","t","o","r","n","e","y">>,
     <<"L","e","g","a","l"," ","A","d","v","i","s","o","r">>,
     <<"C","o","r","p","o","r","a","t","e"," ","C","o","u","n","s","e","l">>,
     <<"P","a","r","a","l","e","g","a","l">>,
     <<"L","e","g","a","l"," ","A","s","s","o","c","i","a","t","e">>,
     <<"C","o","m","p","l","i","a","n","c","e"," ","O","f","f","i","c","e","r">> >>
companySuffixes ==
  << <<"I","n","c">>,
     <<"L","L","C">>,
     <<"L","t","d">>,
     <<"C","o","r","p">>,
     <<"C","o","r","p","o","r","a","t","i","o","n">>,
     <<"C","o","m","p","a","n","y">>,
     <<"C","o">>,
     <<"G","r","o","u","p">>,
     <<"A","s","s","o","c","i","a","t","e","s">>,
     <<"P","a","r","t","n","e","r","s">>,
     <<"E","n","t","e","r","p","r","i","s","e","s">>,
     <<"S","o","l","u","t","i","o","n","s">>,
     <<"T","e","c","h","n","o","l","o","g","i","e","s">>,
     <<"T","e","c","h">>,
     <<"I","n","d","u","s","t","r","i","e","s">>,
     <<"H","o","l","d","i","n","g","s">>,
     <<"V","e","n","t","u","r","e","s">>,
     <<"C","a","p","i","t","a","l">> >>
addressKeywords ==
  << <<"s","t","r","e","e","t">>,
     <<"s","t">>,
     <<"r","o","a","d">>,
     <<"r","d">>,
     <<"a","v","e","n","u","e">>,
     <<"a","v","e">>,
     <<"b","l","v","d">>,
     <<"b","o","u","l","e","v","a","r","d">>,
     <<"s","u","i","t","e">>,
     <<"f","l","o","o","r">>,
     <<"b","u","i","l","d","i","n","g">>,
     <<"b","l","o","c","k">>,
     <<"s","e","c","t","o","r">>,
     <<"a","r","e","a">>,
     <<"c","i","t","y">>,
     <<"z","i","p">>,
     <<"p","i","n">>,
     <<"c","o","d","e">>,
     <<"l","a","n","e">>,
     <<"l","n">>,
     <<"d","r","i","v","e">>,
     <<"d","r">>,
     <<"c","o","u","r","t">>,
     <<"c","t">>,
     <<"p","l","a","c","e">>,
     <<"p","l">>,
     <<"a","p","a","r","t","m","e","n","t">>,
     <<"a","p","t">> >>

designationKeywordsLower == lowerAll(designationKeywords)

companySuffixesLower == lowerAll(companySuffixes)

(***************************************************************************)
(* parseCardData: the blocks of the function                               *)
(***************************************************************************)
\* text.replace(/\s+/g, ' ').replace(/['']/g, "'").trim()
normalizedText(t) ==
  trim([i \in 1..Len(collapseSpace(t)) |->
          IF collapseSpace(t)[i] \in {"'"} THEN "'" ELSE collapseSpace(t)[i]])

\* text.split('\n').filter(line => line.trim())
splitLines(t) == SelectSeq(split(t, "\n"), LAMBDA l : trim(l) # <<>>)

\* the email scan without the lower-casing
emailMatchesKeepCase(nt) == matchAll(emailRegex, nt, 1)

emailMatches(nt) == lowerAll(matchAll(emailRegex, nt, 1))

phoneMatches(nt) == dedupe(trimAll(matchAll(phoneRegex, nt, 1)))

websiteMatch(nt) ==
  LET websiteMatches == matchAll(websiteRegex, nt, 1)
  IN  IF websiteMatches # <<>> THEN toLowerCase(websiteMatches[1]) ELSE <<>>

\* s.charAt(0).toUpperCase() + s.slice(1)
capitalize(s) == IF s = <<>> THEN <<>> ELSE <<upperCh(s[1])>> \o Tail(s)

deriveCompanyFromWebsite(website) ==
  IF website # <<>>
  THEN LET domainMatch == matchFirst(domainLabelRegex, website)
       IN  IF domainMatch.found /\ domainMatch.g1 # <<>>
           THEN capitalize(domainMatch.g1) ELSE <<>>
  ELSE <<>>

deriveFromEmail(es, website) ==
  IF Len(es) > 0 /\ Len(split(es[1], "@")) = 2
  THEN LET domain == split(es[1], "@")[2]
           domainParts == split(domain, ".")
       IN  [companyFromEmail |-> IF Len(domainParts) >= 2 THEN capitalize(domainParts[1])
                                 ELSE <<>>,
            websiteFromEmail |-> IF website # <<>> THEN website
                                 ELSE <<"w","w","w",".">> \o domain]
  ELSE [companyFromEmail |-> <<>>, websiteFromEmail |-> <<>>]

deriveEmailUsername(es) ==
  IF Len(es) > 0 /\ includes(es[1], <<"@">>)
  THEN toLowerCase(split(es[1], "@")[1]) ELSE <<>>

\* emails.some(e => line.toLowerCase().includes(e))
lineHasEmail(line, es) == someIncluded(toLowerCase(line), es)

\* phones.some(p => line.includes(p.replace(/[\s-]/g, '')))
lineHasPhone(line, ps) ==
  \E k \in 1..Len(ps) : includes(line, removeAll(ps[k], Space \cup {"-"}))

\* designationKeywords.some(kw => line.toLowerCase().includes(kw.toLowerCase()))
isDesignation(line) == someIncluded(toLowerCase(line), designationKeywordsLower)

hasNumbers(s) == \E i \in 1..Len(s) : s[i] \in Digit

isAllCaps(line) == line = toUpperCase(line) /\ Len(line) > 1

Min(a, b) == IF a < b THEN a ELSE b

\* the body of the loop that collects the potential names, for one trimmed line
looksLikeName(line, es, ps) ==
  LET isWebsite == \/ includes(toLowerCase(line), <<"w","w","w",".">>)
                   \/ includes(toLowerCase(line), <<".","c","o","m">>)
                   \/ includes(toLowerCase(line), <<".","o","r","g">>)
      isProperlyCapitalized == Run(properlyCapitalizedRegex, line, 1, <<0, 0>>) # Fail
      words == split(line, " ")
      isReasonableLength == Len(words) >= 1 /\ Len(words) <= 4
      hasSpecialChars == \E i \in 1..Len(line) : line[i] \in SpecialChars
  IN  /\ line # <<>>
      /\ ~(hasNumbers(line) \/ lineHasEmail(line, es) \/ lineHasPhone(line, ps) \/ isWebsite)
      /\ ~isDesignation(line)
      /\ isReasonableLength /\ (isAllCaps(line) \/ isProperlyCapitalized)
      /\ ~hasSpecialChars

collectPotentialNames(ls, es, ps) ==
  LET topLines == SubSeq(ls, 1, Min(10, Len(ls)))
      trimmed == [i \in 1..Len(topLines) |-> [name |-> trim(topLines[i]), lineIndex |-> i - 1]]
  IN  SelectSeq(trimmed, LAMBDA c : looksLikeName(c.name, es, ps))

\* a comparison that accepts only the equal name
matchesUsernameExact(username, potentialName) ==
  username = removeAll(toLowerCase(potentialName), Space)

\* the potential name's comparison with the email username
matchesUsername(username, potentialName) ==
  LET nameForComparison == removeAll(toLowerCase(potentialName), Space)
  IN  \/ username = nameForComparison
      \/ includes(username, nameForComparison)
      \/ includes(nameForComparison, username)

nameFromCard(username, candidates) ==
  IF username # <<>> /\ \E k \in 1..Len(candidates) : matchesUsername(username, candidates[k].name)
  THEN candidates[CHOOSE k \in 1..Len(candidates) :
                    /\ matchesUsername(username, candidates[k].name)
                    /\ \A j \in 1..(k - 1) : ~matchesUsername(username, candidates[j].name)].name
  ELSE <<>>

\* a capitalisation of the first character only
capitalizeFirstOnly(s) ==
  [i \in 1..Len(s) |-> IF i = 1 THEN upperCh(s[i]) ELSE s[i]]

\* s.replace(/\b\w/g, char => char.toUpperCase())
capitalizeWords(s) ==
  [i \in 1..Len(s) |->
     IF s[i] \in WordCh /\ (i = 1 \/ s[i - 1] \notin WordCh) THEN upperCh(s[i]) ELSE s[i]]

\* the derivation without the digit test
nameFromEmailAnyChars(username) ==
  LET extractedName ==
        trim(capitalizeWords([i \in 1..Len(username) |->
                                IF username[i] = "." THEN " " ELSE username[i]]))
      words == split(extractedName, " ")
  IN  IF Len(words) >= 1 /\ Len(words) <= 4 THEN extractedName ELSE <<>>

nameFromEmail(username) ==
  LET extractedName ==
        trim(capitalizeWords([i \in 1..Len(username) |->
                                IF username[i] = "." THEN " " ELSE username[i]]))
      words == split(extractedName, " ")
      isReasonableLength == Len(words) >= 1 /\ Len(words) <= 4
  IN  IF isReasonableLength /\ ~hasNumbers(extractedName) THEN extractedName ELSE <<>>

resolveName(username, candidates) ==
  LET onCard == nameFromCard(username, candidates)
  IN  IF onCard = <<>> /\ username # <<>> THEN nameFromEmail(username) ELSE onCard

\* field && line.toLowerCase().includes(field.toLowerCase())
lineHasField(line, field) == field # <<>> /\ includes(toLowerCase(line), toLowerCase(field))

designationAlreadyCaptured(line, nm, comp, es, ps, wEmail, wText, addr) ==
  \/ lineHasField(line, nm)
  \/ lineHasField(line, comp)
  \/ lineHasEmail(line, es)
  \/ lineHasPhone(line, ps)
  \/ lineHasField(line, wEmail)
  \/ lineHasField(line, wText)
  \/ lineHasField(line, addr)

\* index of the first TRUE of a sequence of flags, 0 when there is none
firstTrue(flags) ==
  IF \E i \in 1..Len(flags) : flags[i]
  THEN CHOOSE i \in 1..Len(flags) : flags[i] /\ \A j \in 1..(i - 1) : ~flags[j]
  ELSE 0

\* index of the last TRUE of a sequence of flags, 0 when there is none
lastTrue(flags) ==
  IF \E i \in 1..Len(flags) : flags[i]
  THEN CHOOSE i \in 1..Len(flags) : flags[i] /\ \A j \in (i + 1)..Len(flags) : ~flags[j]
  ELSE 0

extractDesignation(ls, nm, comp, es, ps, wEmail, wText, addr) ==
  LET hit(line) == /\ isDesignation(line)
                   /\ ~designationAlreadyCaptured(line, nm, comp, es, ps, wEmail, wText, addr)
      k == firstTrue([i \in 1..Len(ls) |-> hit(ls[i])])
  IN  IF k = 0 THEN <<>> ELSE trim(ls[k])

\* a cleaning that strips only spaces and hyphens
cleanPhoneKeepParens(phone) == removeAll(phone, Space \cup {"-"})

\* phone.replace(/[^+\d]/g, '') and the re-attachment of a leading +
cleanPhone(phone) ==
  LET stripped == SelectSeq(phone, LAMBDA c : c \in Digit \cup {"+"})
  IN  IF startsWith(stripped, <<"+">>) THEN <<"+">> \o Tail(stripped) ELSE stripped

\* phones.map(phone => the cleaned phone)
cleanAll(ps) == [k \in 1..Len(ps) |-> cleanPhone(ps[k])]

validPhone(phone) ==
  LET digitsOnly == removeAll(phone, {"+"})
  IN  Len(digitsOnly) >= 7 /\ Len(digitsOnly) <= 15 /\ hasNumbers(digitsOnly)

RECURSIVE flatten(_)
flatten(xss) == IF xss = <<>> THEN <<>> ELSE Head(xss) \o flatten(Tail(xss))

\* the per-line scan that runs when the primary pattern produced no valid phone
fallbackPhones(ls) ==
  flatten([i \in 1..Len(ls) |->
             SelectSeq(cleanAll(matchAll(potentialPhoneRegex, ls[i], 1)), validPhone)])

extractCleanPhones(ps, ls) ==
  LET primary == IF Len(ps) > 0 THEN SelectSeq(cleanAll(ps), validPhone) ELSE <<>>
  IN  IF Len(primary) = 0 THEN fallbackPhones(ls) ELSE primary

\* a scan of the logo area that does not skip the designation lines
companyFromLinesAnyTitle(ls, es, cps) ==
  LET logoAreaLines == trimAll(SubSeq(ls, 1, Min(10, Len(ls))))
      qualifies(line) ==
        LET words == split(line, " ")
            hasCompanySuffix == someIncluded(toLowerCase(line), companySuffixesLower)
        IN  /\ line # <<>>
            /\ ~(lineHasPhone(line, cps) \/ lineHasEmail(line, es) \/ hasNumbers(line))
            /\ Len(line) > 1
            /\ (isAllCaps(line) \/ (Len(words) >= 2 /\ Len(words) <= 6) \/ hasCompanySuffix)
      k == firstTrue([i \in 1..Len(logoAreaLines) |-> qualifies(logoAreaLines[i])])
  IN  IF k = 0 THEN <<>> ELSE logoAreaLines[k]

\* the text-derived company: first qualifying line of the logo area
companyFromLines(ls, es, cps) ==
  LET logoAreaLines == trimAll(SubSeq(ls, 1, Min(10, Len(ls))))
      qualifies(line) ==
        LET words == split(line, " ")
            hasCompanySuffix == someIncluded(toLowerCase(line), companySuffixesLower)
        IN  /\ line # <<>>
            /\ ~(lineHasPhone(line, cps) \/ lineHasEmail(line, es) \/ hasNumbers(line)
                 \/ isDesignation(line))
            /\ Len(line) > 1
            /\ (isAllCaps(line) \/ (Len(words) >= 2 /\ Len(words) <= 6) \/ hasCompanySuffix)
      k == firstTrue([i \in 1..Len(logoAreaLines) |-> qualifies(logoAreaLines[i])])
  IN  IF k = 0 THEN <<>> ELSE logoAreaLines[k]

\* a precedence that puts the website before the email
extractCompanyWebsiteFirst(fromEmail, fromWebsite, ls, es, cps) ==
  LET derived == IF fromWebsite # <<>> THEN fromWebsite ELSE fromEmail
  IN  IF derived = <<>> THEN companyFromLines(ls, es, cps) ELSE derived

extractCompany(fromEmail, fromWebsite, ls, es, cps) ==
  LET derived == IF fromEmail # <<>> THEN fromEmail ELSE fromWebsite
  IN  IF derived = <<>> THEN companyFromLines(ls, es, cps) ELSE derived

\* a canonicalisation that adds the prefix without testing for a website
extractWebsiteNoGuard(wEmail, wText) ==
  LET website == IF wEmail # <<>> THEN wEmail ELSE wText
  IN  IF includes(website, <<"w","w","w",".">>) THEN website
      ELSE <<"w","w","w",".">> \o matchFirst(domainMatchRegex, website).g1

extractWebsite(wEmail, wText) ==
  LET website == IF wEmail # <<>> THEN wEmail ELSE wText
      domainMatch == matchFirst(domainMatchRegex, website)
  IN  IF website # <<>> /\ domainMatch.found /\ domainMatch.g1 # <<>>
      THEN IF includes(website, <<"w","w","w",".">>) THEN website
           ELSE <<"w","w","w",".">> \o domainMatch.g1
      ELSE website

\* an address scan that accepts any long line with a digit
extractAddressAnyLongLine(ls, es, cps, nm, comp, desig, website) ==
  LET trimmed == trimAll(ls)
      qualifies(line) ==
        /\ ~(lineHasEmail(line, es) \/ lineHasPhone(line, cps))
        /\ ~(\/ lineHasField(line, nm)
             \/ lineHasField(line, comp)
             \/ lineHasField(line, desig)
             \/ lineHasField(line, website))
        /\ Len(line) > 15
        /\ hasNumbers(line)
        /\ ~includes(line, <<"@">>) /\ ~includes(line, <<"w","w","w">>)
      k == lastTrue([i \in 1..Len(trimmed) |-> qualifies(trimmed[i])])
  IN  IF k = 0 THEN <<>> ELSE trimmed[k]

extractAddress(ls, es, cps, nm, comp, desig, website) ==
  LET trimmed == trimAll(ls)
      qualifies(line) ==
        /\ ~(lineHasEmail(line, es) \/ lineHasPhone(line, cps))
        /\ ~(\/ lineHasField(line, nm)
             \/ lineHasField(line, comp)
             \/ lineHasField(line, desig)
             \/ lineHasField(line, website))
        /\ Len(line) > 15
        /\ hasNumbers(line)
        /\ (someIncluded(toLowerCase(line), addressKeywords) \/ includes(line, <<",">>))
        /\ ~includes(line, <<"@">>) /\ ~includes(line, <<"w","w","w">>)
      k == lastTrue([i \in 1..Len(trimmed) |-> qualifies(trimmed[i])])
  IN  IF k = 0 THEN <<>> ELSE trimmed[k]

cleanText(s) == IF s = <<>> THEN <<>> ELSE trim(collapseSpace(removeAll(s, JunkChars)))

cleanWebsite(s) == IF s = <<>> THEN <<>> ELSE trim(collapseSpace(removeAll(s, WebsiteJunkChars)))

\* a returned object whose image payload went through the sanitiser
buildRecordCleanImage(nm, comp, desig, es, cps, website, addr, image) ==
  [name |-> IF nm # <<>> THEN cleanText(nm) ELSE <<>>,
   company |-> IF comp # <<>> THEN cleanText(comp) ELSE <<>>,
   designation |-> IF desig # <<>> THEN cleanText(desig) ELSE <<>>,
   email |-> IF Len(es) > 0 THEN es[1] ELSE <<>>,
   phone |-> IF Len(cps) > 0 THEN cps[1] ELSE <<>>,
   website |-> IF website # <<>> THEN cleanWebsite(website) ELSE <<>>,
   address |-> IF addr # <<>> THEN cleanText(addr) ELSE <<>>,
   imageData |-> cleanText(image)]

\* the returned object
buildRecord(nm, comp, desig, es, cps, website, addr, image) ==
  [name |-> IF nm # <<>> THEN cleanText(nm) ELSE <<>>,
   company |-> IF comp # <<>> THEN cleanText(comp) ELSE <<>>,
   designation |-> IF desig # <<>> THEN cleanText(desig) ELSE <<>>,
   email |-> IF Len(es) > 0 THEN es[1] ELSE <<>>,
   phone |-> IF Len(cps) > 0 THEN cps[1] ELSE <<>>,
   website |-> IF website # <<>> THEN cleanWebsite(website) ELSE <<>>,
   address |-> IF addr # <<>> THEN cleanText(addr) ELSE <<>>,
   imageData |-> image]

(***************************************************************************)
(* Inputs                                                                  *)
(***************************************************************************)
\* the printed lines the cards are composed of
LinePool ==
    \* " "
  { <<" ">>,
    \* "JOHN DOE"
    <<"J","O","H","N"," ","D","O","E">>,
    \* "IBM"
    <<"I","B","M">>,
    \* "CEO"
    <<"C","E","O">>,
    \* "john.doe@acme.com"
    <<"j","o","h","n",".","d","o","e","@","a","c","m","e",".","c","o","m">>,
    \* "J9@My-Co.in"
    <<"J","9","@","M","y","-","C","o",".","i","n">>,
    \* "doe@acme.com"
    <<"d","o","e","@","a","c","m","e",".","c","o","m">>,
    \* "+1 (555) 123-4567"
    <<"+","1"," ","(","5","5","5",")"," ","1","2","3","-","4","5","6","7">>,
    \* "+(55)-(12)-(34)-(56)"
    <<"+","(","5","5",")","-","(","1","2",")","-","(","3","4",")","-","(","5","6",")">>,
    \* "www.acme.com"
    <<"w","w","w",".","a","c","m","e",".","c","o","m">>,
    \* "https://www.acme.com"
    <<"h","t","t","p","s",":","/","/","w","w","w",".","a","c","m","e",".","c","o","m">>,
    \* "www.acme"
    <<"w","w","w",".","a","c","m","e">>,
    \* "123 Business Street, Suite 100"
    <<"1","2","3"," ","B","u","s","i","n","e","s","s"," ","S","t","r","e","e","t",","," ","S","u","i","t","e"," ","1","0","0">>,
    \* "100, Main Town Mumbai"
    <<"1","0","0",","," ","M","a","i","n"," ","T","o","w","n"," ","M","u","m","b","a","i">> }

\* the largest number of lines of a composed card
MaxLines == 2

\* lines.join('\n')
RECURSIVE joinLines(_)
joinLines(ls) ==
  IF ls = <<>> THEN <<>>
  ELSE IF Len(ls) = 1 THEN ls[1]
  ELSE ls[1] \o <<"\n">> \o joinLines(Tail(ls))

ComposedTexts == {joinLines(ls) : ls \in UNION {[1..k -> LinePool] : k \in 0..MaxLines}}


\* mockBusinessCardText1 of the parser's tests
mockBusinessCardText1 ==
  <<"\n","J","O","H","N"," ","D","O","E","\n","C","E","O","\n","A","C","M","E"," ","C","O","R","P","O","R","A","T","I","O","N","\n","j","o","h","n",".","d","o","e","@","a","c","m","e",".","c","o","m","\n","+","1"," ","(","5","5","5",")"," ","1","2","3","-","4","5","6","7","\n","w","w","w",".","a","c","m","e",".","c","o","m","\n","1","2","3"," ","B","u","s","i","n","e","s","s"," ","S","t","r","e","e","t",","," ","S","u","i","t","e"," ","1","0","0","\n","N","e","w"," ","Y","o","r","k",","," ","N","Y"," ","1","0","0","0","1","\n">>

\* testData of testCompanyExtraction
testData ==
  <<"\n","J","O","H","N"," ","D","O","E","\n","C","E","O","\n","j","o","h","n",".","d","o","e","@","t","e","c","h","c","o","m","p","a","n","y",".","c","o","m","\n","w","w","w",".","t","e","c","h","c","o","m","p","a","n","y",".","c","o","m","\n","+","1"," ","(","5","5","5",")"," ","1","2","3","-","4","5","6","7","\n","1","2","3"," ","T","e","c","h"," ","S","t","r","e","e","t","\n","S","a","n"," ","F","r","a","n","c","i","s","c","o",","," ","C","A"," ","9","4","1","0","2","\n">>

\* mockBusinessCardText2 of the parser's tests
mockBusinessCardText2 ==
  <<"\n","J","A","N","E"," ","S","M","I","T","H","\n","M","a","r","k","e","t","i","n","g"," ","D","i","r","e","c","t","o","r","\n","G","L","O","B","A","L"," ","T","E","C","H"," ","S","O","L","U","T","I","O","N","S","\n","j","a","n","e",".","s","m","i","t","h","@","g","l","o","b","a","l","t","e","c","h",".","i","o","\n","(","4","5","6",")"," ","9","8","7","-","6","5","4","3","\n","w","w","w",".","g","l","o","b","a","l","t","e","c","h",".","i","o","\n","4","5","6"," ","I","n","n","o","v","a","t","i","o","n"," ","B","l","v","d","\n","S","a","n"," ","F","r","a","n","c","i","s","c","o",","," ","C","A"," ","9","4","1","0","2","\n">>

\* cards of the scenarios the field rules are examined on
ScenarioCards ==
    \* "jane.smith@example.com"
  { <<"j","a","n","e",".","s","m","i","t","h","@","e","x","a","m","p","l","e",".","c","o","m">>,
    \* "mary-ann_lee@example.com"
    <<"m","a","r","y","-","a","n","n","_","l","e","e","@","e","x","a","m","p","l","e",".","c","o","m">>,
    \* "a.b.c.d.e@x.io"
    <<"a",".","b",".","c",".","d",".","e","@","x",".","i","o">>,
    \* "IBM\nibm@acme.com"
    <<"I","B","M","\n","i","b","m","@","a","c","m","e",".","c","o","m">>,
    \* "MARY-ANN\nmary-ann@acme.com"
    <<"M","A","R","Y","-","A","N","N","\n","m","a","r","y","-","a","n","n","@","a","c","m","e",".","c","o","m">>,
    \* "DOE\nJOHN DOE\ndoe@acme.com"
    <<"D","O","E","\n","J","O","H","N"," ","D","O","E","\n","d","o","e","@","a","c","m","e",".","c","o","m">>,
    \* "IBM\nJOHN DOE\ndoe@acme.com"
    <<"I","B","M","\n","J","O","H","N"," ","D","O","E","\n","d","o","e","@","a","c","m","e",".","c","o","m">>,
    \* "Tel +1 (555) 123-4567, Main Road"
    <<"T","e","l"," ","+","1"," ","(","5","5","5",")"," ","1","2","3","-","4","5","6","7",","," ","M","a","i","n"," ","R","o","a","d">>,
    \* "CEO +1 (555) 123-4567"
    <<"C","E","O"," ","+","1"," ","(","5","5","5",")"," ","1","2","3","-","4","5","6","7">>,
    \* "John Doe, CEO\njohn.doe@acme.com"
    <<"J","o","h","n"," ","D","o","e",","," ","C","E","O","\n","j","o","h","n",".","d","o","e","@","a","c","m","e",".","c","o","m">>,
    \* "12 President Street, Pune"
    <<"1","2"," ","P","r","e","s","i","d","e","n","t"," ","S","t","r","e","e","t",","," ","P","u","n","e">>,
    \* "JOHN DOE\nCEO\nIBM\ndoe@acme.com\n123 Business Street, Suite 100"
    <<"J","O","H","N"," ","D","O","E","\n","C","E","O","\n","I","B","M","\n","d","o","e","@","a","c","m","e",".","c","o","m","\n","1","2","3"," ","B","u","s","i","n","e","s","s"," ","S","t","r","e","e","t",","," ","S","u","i","t","e"," ","1","0","0">>,
    \* "A, Ceo\na.ceo@x.com"
    <<"A",","," ","C","e","o","\n","a",".","c","e","o","@","x",".","c","o","m">>,
    \* "Acme Tower, 12 Main Road\ndoe@acme.com"
    <<"A","c","m","e"," ","T","o","w","e","r",","," ","1","2"," ","M","a","i","n"," ","R","o","a","d","\n","d","o","e","@","a","c","m","e",".","c","o","m">>,
    \* "12 Main Road\nPune 411001"
    <<"1","2"," ","M","a","i","n"," ","R","o","a","d","\n","P","u","n","e"," ","4","1","1","0","0","1">> }

Texts == ComposedTexts \cup {mockBusinessCardText1, mockBusinessCardText2, testData} \cup ScenarioCards

\* an image payload: a data URI
ImagePayload == <<"d","a","t","a",":","i","m","a","g","e","/","p","n","g",";","b","a","s","e","6","4",",","i","V","B","+","/","=">>

\* the second argument of a call: omitted, or a payload
ImageArgs == {<<>>, <<ImagePayload>>}

(***************************************************************************)
(* The page's state: the cards, the processing flag and queue, the calls   *)
(***************************************************************************)
\* the largest number of captures of a session
MaxCalls == 2

\* the last millisecond the clock reaches
MaxClock == 1

CallIds == 1..MaxCalls

\* the image data handed to onImageCapture: the empty string, or a data URI
Images == {<<>>, ImagePayload}

\* a data URI that resizeImageForOCR gives back
ResizedPayload == <<"d","a","t","a",":","i","m","a","g","e","/","j","p","e","g",";","b","a","s","e","6","4",",","/","9","j","=">>

\* the texts a recognition returns
OcrTexts ==
    \* "doe@acme.com"
  { <<"d","o","e","@","a","c","m","e",".","c","o","m">> }

\* the name a user types when editing a card
EditedName == <<"J","o">>

\* a call of handleImageCapture that has not begun
idleCall ==
  [pc |-> "idle", imageData |-> <<>>, closureQueue |-> 0, resizedImageData |-> <<>>,
   worker |-> "none", terminations |-> 0, outcome |-> "none", cardData |-> <<>>]

(***************************************************************************)
(* Sign-up and the protected route: the state                              *)
(***************************************************************************)
\* the last instant of the model's calendar, in ticks
MaxDate == 3

\* the milliseconds of a day (1000 * 60 * 60 * 24), scaled to two ticks
DayLength == 2

\* the days of the trial (60), scaled to one
TrialDays == 1

\* user === null
NoUser == "null"

\* the e-mail addresses of the accounts
Users == {"a@x.io", "b@x.io"}

\* the e-mail address typed into the sign-up form
FormEmails == {"a@x.io"}

\* the coupon field of the sign-up form: empty, the trial code, another code
CouponCodes == {"", "BCS60", "FREE"}

\* the values the browser's fingerprint hashes to
MachineIds == {"m1", "m2"}

\* localStorage.getItem('bcs_coupon') === null
NoCoupon == <<>>

\* the sign-up form as first rendered: every field empty
emptyForm ==
  [pc |-> "idle", email |-> "", passwordsMatch |-> TRUE, couponCode |-> "",
   signUpCalls |-> 0, signUpResult |-> "none"]

\* before anyone has signed in, with nothing stored
AuthInit ==
  /\ user = NoUser
  /\ storedCoupon = NoCoupon
  /\ currentDate = 0
  /\ machineId = "m1"
  /\ signup = emptyForm
  /\ loading = FALSE
  /\ route = "/"
  /\ toast = "none"

\* the page after its first render
PageInit ==
  /\ cards = <<>>
  /\ isProcessing = FALSE
  /\ processingQueue = 0
  /\ calls = [c \in CallIds |-> idleCall]
  /\ now = 0

(***************************************************************************)
(* One call of parseCardData(text, imageData), block by block              *)
(***************************************************************************)
Init ==
  /\ text \in Texts
  /\ imageArg \in ImageArgs
  /\ pc = "extract"
  /\ lines = <<>>
  /\ emails = <<>>
  /\ phones = <<>>
  /\ websiteFromText = <<>>
  /\ companyFromWebsite = <<>>
  /\ companyFromEmail = <<>>
  /\ websiteFromEmail = <<>>
  /\ emailUsername = <<>>
  /\ potentialNames = <<>>
  /\ name = <<>>
  /\ designation = <<>>
  /\ cleanPhones = <<>>
  /\ company = <<>>
  /\ finalWebsite = <<>>
  /\ address = <<>>
  /\ result = <<>>
  /\ PageInit
  /\ AuthInit

\* normalisation, the three pattern scans and the values derived from them
ExtractPatterns ==
  /\ pc = "extract"
  /\ LET nt == normalizedText(text)
         es == emailMatches(nt)
         w == websiteMatch(nt)
     IN  /\ lines' = splitLines(text)
         /\ emails' = es
         /\ phones' = phoneMatches(nt)
         /\ websiteFromText' = w
         /\ companyFromWebsite' = deriveCompanyFromWebsite(w)
         /\ companyFromEmail' = deriveFromEmail(es, w).companyFromEmail
         /\ websiteFromEmail' = deriveFromEmail(es, w).websiteFromEmail
         /\ emailUsername' = deriveEmailUsername(es)
  /\ pc' = "names"
  /\ UNCHANGED <<pageVars, authVars, text, imageArg, potentialNames, name, designation, cleanPhones, company,
                 finalWebsite, address, result>>

CollectNames ==
  /\ pc = "names"
  /\ potentialNames' = collectPotentialNames(lines, emails, phones)
  /\ pc' = "name"
  /\ UNCHANGED <<pageVars, authVars, text, imageArg, lines, emails, phones, websiteFromText, companyFromWebsite,
                 companyFromEmail, websiteFromEmail, emailUsername, name, designation,
                 cleanPhones, company, finalWebsite, address, result>>

ResolveName ==
  /\ pc = "name"
  /\ name' = resolveName(emailUsername, potentialNames)
  /\ pc' = "designation"
  /\ UNCHANGED <<pageVars, authVars, text, imageArg, lines, emails, phones, websiteFromText, companyFromWebsite,
                 companyFromEmail, websiteFromEmail, emailUsername, potentialNames,
                 designation, cleanPhones, company, finalWebsite, address, result>>

ExtractDesignation ==
  /\ pc = "designation"
  /\ designation' = extractDesignation(lines, name, company, emails, phones, websiteFromEmail,
                                       websiteFromText, address)
  /\ pc' = "phone"
  /\ UNCHANGED <<pageVars, authVars, text, imageArg, lines, emails, phones, websiteFromText, companyFromWebsite,
                 companyFromEmail, websiteFromEmail, emailUsername, potentialNames, name,
                 cleanPhones, company, finalWebsite, address, result>>

ExtractPhone ==
  /\ pc = "phone"
  /\ cleanPhones' = extractCleanPhones(phones, lines)
  /\ pc' = "company"
  /\ UNCHANGED <<pageVars, authVars, text, imageArg, lines, emails, phones, websiteFromText, companyFromWebsite,
                 companyFromEmail, websiteFromEmail, emailUsername, potentialNames, name,
                 designation, company, finalWebsite, address, result>>

ExtractCompany ==
  /\ pc = "company"
  /\ company' = extractCompany(companyFromEmail, companyFromWebsite, lines, emails, cleanPhones)
  /\ pc' = "website"
  /\ UNCHANGED <<pageVars, authVars, text, imageArg, lines, emails, phones, websiteFromText, companyFromWebsite,
                 companyFromEmail, websiteFromEmail, emailUsername, potentialNames, name,
                 designation, cleanPhones, finalWebsite, address, result>>

ExtractWebsite ==
  /\ pc = "website"
  /\ finalWebsite' = extractWebsite(websiteFromEmail, websiteFromText)
  /\ pc' = "address"
  /\ UNCHANGED <<pageVars, authVars, text, imageArg, lines, emails, phones, websiteFromText, companyFromWebsite,
                 companyFromEmail, websiteFromEmail, emailUsername, potentialNames, name,
                 designation, cleanPhones, company, address, result>>

ExtractAddress ==
  /\ pc = "address"
  /\ address' = extractAddress(lines, emails, cleanPhones, name, company, designation,
                               finalWebsite)
  /\ pc' = "return"
  /\ UNCHANGED <<pageVars, authVars, text, imageArg, lines, emails, phones, websiteFromText, companyFromWebsite,
                 companyFromEmail, websiteFromEmail, emailUsername, potentialNames, name,
                 designation, cleanPhones, company, finalWebsite, result>>

\* the sanitisers and the returned object; imageData defaults to ''
Return ==
  /\ pc = "return"
  /\ result' = buildRecord(name, company, designation, emails, cleanPhones, finalWebsite,
                           address, IF imageArg = <<>> THEN <<>> ELSE imageArg[1])
  /\ pc' = "done"
  /\ UNCHANGED <<pageVars, authVars, text, imageArg, lines, emails, phones, websiteFromText, companyFromWebsite,
                 companyFromEmail, websiteFromEmail, emailUsername, potentialNames, name,
                 designation, cleanPhones, company, finalWebsite, address>>

\* the function as a whole: the blocks above, in program order
parseCardData(t, imageArgs) ==
  LET nt == normalizedText(t)
      ls == splitLines(t)
      es == emailMatches(nt)
      ps == phoneMatches(nt)
      wText == websiteMatch(nt)
      fromEmail == deriveFromEmail(es, wText)
      nm == resolveName(deriveEmailUsername(es), collectPotentialNames(ls, es, ps))
      desig == extractDesignation(ls, nm, <<>>, es, ps, fromEmail.websiteFromEmail, wText, <<>>)
      cps == extractCleanPhones(ps, ls)
      comp == extractCompany(fromEmail.companyFromEmail, deriveCompanyFromWebsite(wText),
                             ls, es, cps)
      website == extractWebsite(fromEmail.websiteFromEmail, wText)
      addr == extractAddress(ls, es, cps, nm, comp, desig, website)
  IN  buildRecord(nm, comp, desig, es, cps, website, addr,
                  IF imageArgs = <<>> THEN <<>> ELSE imageArgs[1])

Next ==
  \/ ExtractPatterns
  \/ CollectNames
  \/ ResolveName
  \/ ExtractDesignation
  \/ ExtractPhone
  \/ ExtractCompany
  \/ ExtractWebsite
  \/ ExtractAddress
  \/ Return

Spec == Init /\ [][Next]_vars

(***************************************************************************)
(* The page: handleImageCapture with processImage, handleUpdateCard,       *)
(* handleDeleteCard                                                        *)
(***************************************************************************)
\* no call of parseCardData is in progress
ParserIdle ==
  /\ text = <<>>
  /\ imageArg = <<>>
  /\ pc = "none"
  /\ lines = <<>>
  /\ emails = <<>>
  /\ phones = <<>>
  /\ websiteFromText = <<>>
  /\ companyFromWebsite = <<>>
  /\ companyFromEmail = <<>>
  /\ websiteFromEmail = <<>>
  /\ emailUsername = <<>>
  /\ potentialNames = <<>>
  /\ name = <<>>
  /\ designation = <<>>
  /\ cleanPhones = <<>>
  /\ company = <<>>
  /\ finalWebsite = <<>>
  /\ address = <<>>
  /\ result = <<>>

PageStart == ParserIdle /\ PageInit /\ AuthInit

DigitChars == <<"0", "1", "2", "3", "4", "5", "6", "7", "8", "9">>

\* Number.prototype.toString of a non-negative integer
RECURSIVE toString(_)
toString(n) ==
  IF n < 10 THEN <<DigitChars[n + 1]>>
  ELSE toString(n \div 10) \o <<DigitChars[(n % 10) + 1]>>

Max(a, b) == IF a > b THEN a ELSE b

\* a call that has settled keeps its worker's fate and its outcome only
settledCall(call) ==
  [idleCall EXCEPT !.pc = "settled", !.worker = call.worker,
                   !.terminations = call.terminations, !.outcome = call.outcome]

\* ImageCapture takes the onImageCapture of the current render, with the
\* processingQueue that render saw, and has an image to hand over
Bind ==
  \E c \in CallIds, img \in Images :
    /\ calls[c].pc = "idle"
    /\ \A d \in 1..(c - 1) : calls[d].pc # "idle"
    /\ calls' = [calls EXCEPT ![c].pc = "bound", ![c].imageData = img,
                              ![c].closureQueue = processingQueue]
    /\ UNCHANGED <<cards, isProcessing, processingQueue, now, parserVars, authVars>>

\* an entry that validates the image before it counts the call
StartCountingValidImages ==
  \E c \in CallIds :
    /\ calls[c].pc = "bound"
    /\ processingQueue' = IF calls[c].imageData = <<>> THEN processingQueue
                          ELSE processingQueue + 1
    /\ isProcessing' = IF calls[c].closureQueue = 0 THEN TRUE ELSE isProcessing
    /\ calls' = IF calls[c].imageData = <<>>
                THEN [calls EXCEPT ![c].pc = "settle", ![c].outcome = "error"]
                ELSE [calls EXCEPT ![c].pc = "prepare"]
    /\ UNCHANGED <<cards, now, parserVars, authVars>>

\* handleImageCapture up to its await, and processImage's input validation
Start ==
  \E c \in CallIds :
    /\ calls[c].pc = "bound"
    /\ processingQueue' = processingQueue + 1
    /\ isProcessing' = IF calls[c].closureQueue = 0 THEN TRUE ELSE isProcessing
    /\ calls' = IF calls[c].imageData = <<>>
                THEN [calls EXCEPT ![c].pc = "settle", ![c].outcome = "error"]
                ELSE [calls EXCEPT ![c].pc = "prepare"]
    /\ UNCHANGED <<cards, now, parserVars, authVars>>

\* convertHeicToJpeg and resizeImageForOCR, whose failures fall back to the
\* image they were given, then prepareImageForOCR, whose failure is thrown
PrepareImage ==
  \E c \in CallIds, ok \in BOOLEAN :
    /\ calls[c].pc = "prepare"
    /\ \E resized \in {calls[c].imageData, ResizedPayload} :
         calls' = IF ok
                  THEN [calls EXCEPT ![c].pc = "createWorker", ![c].resizedImageData = resized]
                  ELSE [calls EXCEPT ![c].pc = "settle", ![c].outcome = "error"]
    /\ UNCHANGED <<cards, isProcessing, processingQueue, now, parserVars, authVars>>

\* createWorker('eng'), outside the try block
CreateWorker ==
  \E c \in CallIds, ok \in BOOLEAN :
    /\ calls[c].pc = "createWorker"
    /\ calls' = IF ok
                THEN [calls EXCEPT ![c].pc = "setParameters", ![c].worker = "running"]
                ELSE [calls EXCEPT ![c].pc = "settle", ![c].outcome = "error"]
    /\ UNCHANGED <<cards, isProcessing, processingQueue, now, parserVars, authVars>>

\* worker.setParameters placed before the try block: a failure leaves at once
SetParametersOutsideTry ==
  \E c \in CallIds, ok \in BOOLEAN :
    /\ calls[c].pc = "setParameters"
    /\ calls' = IF ok
                THEN [calls EXCEPT ![c].pc = "recognize"]
                ELSE [calls EXCEPT ![c].pc = "settle", ![c].outcome = "error"]
    /\ UNCHANGED <<cards, isProcessing, processingQueue, now, parserVars, authVars>>

\* worker.setParameters: a failure leaves through the finally block
SetParameters ==
  \E c \in CallIds, ok \in BOOLEAN :
    /\ calls[c].pc = "setParameters"
    /\ calls' = IF ok
                THEN [calls EXCEPT ![c].pc = "recognize"]
                ELSE [calls EXCEPT ![c].pc = "terminate", ![c].outcome = "error"]
    /\ UNCHANGED <<cards, isProcessing, processingQueue, now, parserVars, authVars>>

\* worker.recognize, parseCardData on its text and the id from Date.now()
Recognize ==
  \E c \in CallIds, ok \in BOOLEAN, t \in OcrTexts :
    /\ calls[c].pc = "recognize"
    /\ calls' =
         IF ok
         THEN [calls EXCEPT
                 ![c].pc = "terminate", ![c].outcome = "ok",
                 ![c].cardData =
                    <<[id |-> toString(now)]
                        @@ parseCardData(t, <<calls[c].resizedImageData>>)>>]
         ELSE [calls EXCEPT ![c].pc = "terminate", ![c].outcome = "error"]
    /\ UNCHANGED <<cards, isProcessing, processingQueue, now, parserVars, authVars>>

\* the finally block of processImage: worker.terminate()
Terminate ==
  \E c \in CallIds :
    /\ calls[c].pc = "terminate"
    /\ calls' = [calls EXCEPT ![c].pc = "settle", ![c].worker = "terminated",
                              ![c].terminations = @ + 1]
    /\ UNCHANGED <<cards, isProcessing, processingQueue, now, parserVars, authVars>>

\* a settlement that puts the new card in front of the list
SettlePrepending ==
  \E c \in CallIds :
    /\ calls[c].pc = "settle"
    /\ cards' = IF calls[c].outcome = "ok" THEN <<calls[c].cardData[1]>> \o cards ELSE cards
    /\ LET newCount == processingQueue - 1
       IN  /\ isProcessing' = IF newCount <= 0 THEN FALSE ELSE isProcessing
           /\ processingQueue' = Max(0, newCount)
    /\ calls' = [calls EXCEPT ![c] = settledCall(calls[c])]
    /\ UNCHANGED <<now, parserVars, authVars>>

\* handleImageCapture after the await: setCards on success, then the finally
\* block with the queue's decrement
Settle ==
  \E c \in CallIds :
    /\ calls[c].pc = "settle"
    /\ cards' = IF calls[c].outcome = "ok" THEN Append(cards, calls[c].cardData[1]) ELSE cards
    /\ LET newCount == processingQueue - 1
       IN  /\ isProcessing' = IF newCount <= 0 THEN FALSE ELSE isProcessing
           /\ processingQueue' = Max(0, newCount)
    /\ calls' = [calls EXCEPT ![c] = settledCall(calls[c])]
    /\ UNCHANGED <<now, parserVars, authVars>>

\* a millisecond passes
Tick ==
  /\ now < MaxClock
  /\ now' = now + 1
  /\ UNCHANGED <<cards, isProcessing, processingQueue, calls, parserVars, authVars>>

\* the table's saveEdit: handleUpdateCard(editingId, editData), the table being
\* rendered only while nothing is processing
handleUpdateCard ==
  \E k \in 1..Len(cards) :
    LET id == cards[k].id
        updates == [cards[k] EXCEPT !.name = EditedName]
    IN  /\ ~isProcessing
        /\ cards' = [i \in 1..Len(cards) |-> IF cards[i].id = id THEN updates ELSE cards[i]]
        /\ UNCHANGED <<isProcessing, processingQueue, calls, now, parserVars, authVars>>

\* the table's delete button: handleDeleteCard(card.id)
handleDeleteCard ==
  \E k \in 1..Len(cards) :
    LET id == cards[k].id
    IN  /\ ~isProcessing
        /\ cards' = SelectSeq(cards, LAMBDA card : card.id # id)
        /\ UNCHANGED <<isProcessing, processingQueue, calls, now, parserVars, authVars>>

PageNext ==
  \/ Bind
  \/ Start
  \/ PrepareImage
  \/ CreateWorker
  \/ SetParameters
  \/ Recognize
  \/ Terminate
  \/ Settle
  \/ Tick
  \/ handleUpdateCard
  \/ handleDeleteCard

PageSpec == PageStart /\ [][PageNext]_vars

(***************************************************************************)
(* Sign-up and the protected route: Signup.handleSubmit,                   *)
(* getCouponDaysRemaining, ProtectedRoute                                  *)
(***************************************************************************)
AuthStart == ParserIdle /\ PageInit /\ AuthInit

\* Math.ceil(a / b) for a >= 0
ceilDiv(a, b) == (a + b - 1) \div b

\* the record JSON.parse gives back for what JSON.stringify stored: four
\* fields, the expiry date an ISO string that new Date reads back to the
\* millisecond
parsedCoupon == storedCoupon[1]

\* getCouponDaysRemaining: value is <<>> for null and <<days>> for a number,
\* storage is local storage after the call
getCouponDaysRemaining ==
  IF user = NoUser THEN [value |-> <<>>, storage |-> storedCoupon]
  ELSE IF storedCoupon = NoCoupon THEN [value |-> <<>>, storage |-> storedCoupon]
  ELSE IF parsedCoupon.userId # user /\ parsedCoupon.machineId # machineId
       THEN [value |-> <<>>, storage |-> storedCoupon]
  ELSE IF currentDate > parsedCoupon.expiryDate
       THEN [value |-> <<>>, storage |-> NoCoupon]
  ELSE LET diffTime == parsedCoupon.expiryDate - currentDate
           diffDays == ceilDiv(diffTime, DayLength)
       IN  [value |-> <<IF diffDays > 0 THEN diffDays ELSE 0>>, storage |-> storedCoupon]

\* the user fills the form in: setEmail, setPassword, setConfirmPassword,
\* setCouponCode
FillForm ==
  \E e \in FormEmails, m \in BOOLEAN, code \in CouponCodes :
    /\ signup.pc \in {"idle", "done"}
    /\ signup' = [emptyForm EXCEPT !.email = e, !.passwordsMatch = m, !.couponCode = code]
    /\ UNCHANGED <<user, storedCoupon, currentDate, machineId, loading, route, toast,
                   parserVars, pageVars>>

\* the coupon check of handleSubmit: the stored coupon was used on this machine
\* and has not expired
couponAlreadyUsed ==
  /\ storedCoupon # NoCoupon
  /\ parsedCoupon.machineId = machineId
  /\ currentDate < parsedCoupon.expiryDate

\* handleSubmit from the click to its await of signUp; the await of
\* getMachineId yields to no other task, the function having no await of its
\* own, so the coupon check belongs to the same step
handleSubmit ==
  /\ signup.pc = "idle"
  /\ ~loading
  /\ IF ~signup.passwordsMatch
     THEN /\ toast' = "Error"
          /\ signup' = [signup EXCEPT !.pc = "done"]
          /\ UNCHANGED loading
     ELSE IF signup.couponCode # "" /\ signup.couponCode # "BCS60"
     THEN /\ toast' = "Invalid Coupon"
          /\ loading' = FALSE
          /\ signup' = [signup EXCEPT !.pc = "done"]
     ELSE IF signup.couponCode = "BCS60" /\ couponAlreadyUsed
     THEN /\ toast' = "Coupon Already Used"
          /\ loading' = FALSE
          /\ signup' = [signup EXCEPT !.pc = "done"]
     ELSE /\ loading' = TRUE
          /\ signup' = [signup EXCEPT !.pc = "signUp", !.signUpCalls = @ + 1]
          /\ UNCHANGED toast
  /\ UNCHANGED <<user, storedCoupon, currentDate, machineId, route, parserVars, pageVars>>

\* the coupon handleSubmit stores
newCoupon ==
  [code |-> signup.couponCode, userId |-> signup.email, machineId |-> machineId,
   expiryDate |-> currentDate + TrialDays * DayLength]

\* a handleSubmit that stores the coupon before it awaits signUp's outcome
signUpSettlesCouponFirst ==
  \E ok \in BOOLEAN :
    /\ signup.pc = "signUp"
    /\ signup' = [signup EXCEPT !.pc = "done",
                                !.signUpResult = IF ok THEN "ok" ELSE "error"]
    /\ storedCoupon' = IF signup.couponCode = "BCS60" THEN <<newCoupon>>
                       ELSE storedCoupon
    /\ toast' = IF ok THEN "Success" ELSE "Error"
    /\ route' = IF ok THEN "/" ELSE route
    /\ loading' = FALSE
    /\ UNCHANGED <<user, currentDate, machineId, parserVars, pageVars>>

\* handleSubmit after its await of signUp: the coupon is stored and the page
\* left on success, the error is shown on failure, and finally loading is reset
signUpSettles ==
  \E ok \in BOOLEAN :
    /\ signup.pc = "signUp"
    /\ signup' = [signup EXCEPT !.pc = "done",
                                !.signUpResult = IF ok THEN "ok" ELSE "error"]
    /\ storedCoupon' = IF ok /\ signup.couponCode = "BCS60" THEN <<newCoupon>>
                       ELSE storedCoupon
    /\ toast' = IF ok THEN "Success" ELSE "Error"
    /\ route' = IF ok THEN "/" ELSE route
    /\ loading' = FALSE
    /\ UNCHANGED <<user, currentDate, machineId, parserVars, pageVars>>

\* the listener of onAuthStateChanged: somebody signs in, up or out
onAuthStateChanged ==
  \E u \in Users \cup {NoUser} :
    /\ u # user
    /\ user' = u
    /\ UNCHANGED <<storedCoupon, currentDate, machineId, signup, loading, route, toast,
                   parserVars, pageVars>>

\* the protected page is entered: the redirect to the login page without a
\* user, else the children and the effect with its coupon check
ProtectedRoute ==
  /\ IF user = NoUser
     THEN /\ route' = "/login"
          /\ UNCHANGED <<toast, storedCoupon>>
     ELSE LET remaining == getCouponDaysRemaining
              daysRemaining == remaining.value
          IN  /\ storedCoupon' = remaining.storage
              /\ IF daysRemaining # <<>> /\ daysRemaining[1] <= 0
                 THEN toast' = "Access Expired" /\ route' = "/"
                 ELSE route' = "protected" /\ UNCHANGED toast
  /\ UNCHANGED <<user, currentDate, machineId, signup, loading, parserVars, pageVars>>

\* time passes
AdvanceDate ==
  /\ currentDate < MaxDate
  /\ currentDate' = currentDate + 1
  /\ UNCHANGED <<user, storedCoupon, machineId, signup, loading, route, toast,
                 parserVars, pageVars>>

\* a property the fingerprint reads changes (screen, language, navigator.onLine)
\* and getMachineId hashes to another value
FingerprintChanges ==
  \E m \in MachineIds \ {machineId} :
    /\ machineId' = m
    /\ UNCHANGED <<user, storedCoupon, currentDate, signup, loading, route, toast,
                   parserVars, pageVars>>

AuthNext ==
  \/ FillForm
  \/ handleSubmit
  \/ signUpSettles
  \/ onAuthStateChanged
  \/ ProtectedRoute
  \/ AdvanceDate
  \/ FingerprintChanges

AuthSpec == AuthStart /\ [][AuthNext]_vars

(***************************************************************************)
(* Properties of the returned record                                       *)
(***************************************************************************)
TextFields == {"name", "company", "designation", "email", "phone", "website", "address"}

IsString(s) == s \in Seq(Alphabet)

\* the number of characters of s that belong to class
countOf(s, class) == Cardinality({i \in 1..Len(s) : s[i] \in class})

\* C1: the seven text fields of the returned record are strings, and for the
\* empty text all seven are the empty string
C1_FullyPopulated ==
  pc = "done" =>
    /\ \A f \in TextFields : IsString(result[f])
    /\ text = <<>> => \A f \in TextFields : result[f] = <<>>

C1_Witness ==
  /\ pc = "done"
  /\ text = <<>>
  /\ \A f \in TextFields : result[f] = <<>>

\* C3: a non-empty returned email is lower-case, has no whitespace, exactly
\* one '@' with a non-empty local part before it, and a domain in which a '.'
\* stands between two non-empty parts
C3_EmailShape ==
  (pc = "done" /\ result.email # <<>>) =>
    LET e == result.email
        at == CHOOSE i \in 1..Len(e) : e[i] = "@"
    IN  /\ countOf(e, {"@"}) = 1
        /\ countOf(e, Space) = 0
        /\ countOf(e, Upper) = 0
        /\ at > 1
        /\ \E k \in (at + 2)..(Len(e) - 1) : e[k] = "."

\* an email printed with capital letters has been returned
C3_Witness ==
  /\ pc = "done"
  /\ includes(text, <<"J","9","@","M","y","-","C","o",".","i","n">>)
  /\ result.email = <<"j","9","@","m","y","-","c","o",".","i","n">>

C5_WebsiteCanonical ==
  (pc = "done" /\ result.website # <<>>) =>
    /\ startsWith(result.website, <<"w","w","w",".">>)
    /\ includes(SubSeq(result.website, 5, Len(result.website)), <<".">>)

\* some address keyword occurs in s, in any case
hasAddressKeyword(s) == someIncluded(toLowerCase(s), addressKeywords)

C7_NameHasNoDigit ==
  (pc = "done" /\ result.name # <<>>) => ~hasNumbers(result.name)

\* a name derived from the email local-part has been returned
C7_Witness ==
  /\ pc = "done"
  /\ result.name # <<>>
  /\ nameFromCard(emailUsername, potentialNames) = <<>>
  /\ result.name = cleanText(nameFromEmail(emailUsername))

\* C8: the returned imageData is the imageData argument ('' when omitted), and
\* the seven text fields are those returned for the same text with any other
\* imageData argument
C8_ImagePassThrough ==
  pc = "done" =>
    /\ result.imageData = (IF imageArg = <<>> THEN <<>> ELSE imageArg[1])
    /\ \A other \in ImageArgs \ {imageArg} :
         \A r \in {parseCardData(text, other)} : \A f \in TextFields : result[f] = r[f]

\* a call with a payload made of characters the sanitisers would remove
C8_Witness ==
  /\ pc = "done"
  /\ imageArg = <<ImagePayload>>
  /\ result.imageData = ImagePayload
  /\ cleanText(ImagePayload) # ImagePayload
  /\ result.name # <<>>

\* the part of an email after its '@'
afterAt(e) == SubSeq(e, (CHOOSE i \in 1..Len(e) : e[i] = "@") + 1, Len(e))

\* the part of s before its first '.', all of s when it has none
firstLabel(s) ==
  IF includes(s, <<".">>)
  THEN SubSeq(s, 1, (CHOOSE i \in 1..Len(s) : s[i] = "." /\ \A j \in 1..(i - 1) : s[j] # ".") - 1)
  ELSE s

\* a website without its http:// or https:// prefix
stripProtocol(w) ==
  IF startsWith(w, <<"h","t","t","p","s",":","/","/">>) THEN SubSeq(w, 9, Len(w))
  ELSE IF startsWith(w, <<"h","t","t","p",":","/","/">>) THEN SubSeq(w, 8, Len(w))
  ELSE w

\* the first label of a website: the label after a leading 'www.' when a
\* dotted label follows that prefix, else the first label of the host
websiteLabel(w) ==
  LET host == stripProtocol(w)
      rest == SubSeq(host, 5, Len(host))
  IN  IF startsWith(host, <<"w","w","w",".">>) /\ firstLabel(rest) # <<>> /\ includes(rest, <<".">>)
      THEN firstLabel(rest)
      ELSE firstLabel(host)

\* C9 as stated: with an email, company is the capitalised first label of the
\* first email's domain; without an email and with a website in the text,
\* company is the capitalised first label of that website
C9_CompanyPrecedence ==
  pc = "done" =>
    /\ emails # <<>> => result.company = capitalize(firstLabel(afterAt(emails[1])))
    /\ (emails = <<>> /\ websiteFromText # <<>>) =>
         result.company = capitalize(websiteLabel(websiteFromText))

\* C9 as amended: the same precedence, the derived label being returned
\* capitalised and sanitised (characters such as '-' and '_' removed)
C9_CompanyPrecedenceSanitised ==
  pc = "done" =>
    /\ emails # <<>> => result.company = cleanText(capitalize(firstLabel(afterAt(emails[1]))))
    /\ (emails = <<>> /\ websiteFromText # <<>>) =>
         result.company = cleanText(capitalize(websiteLabel(websiteFromText)))

\* an email with a hyphenated domain label, and a different website label in the text
C9_Witness ==
  /\ pc = "done"
  /\ emails # <<>>
  /\ afterAt(emails[1]) = <<"m","y","-","c","o",".","i","n">>
  /\ companyFromWebsite # companyFromEmail
  /\ result.company = <<"M","y","c","o">>

\* C10: when a line of the first 10 qualifies as a name, the returned name is
\* the first such line
C10_FirstQualifyingLineIsName ==
  (pc = "done" /\ potentialNames # <<>>) =>
    result.name = cleanText(potentialNames[1].name)

\* the local-part with each '.' replaced by a space and the first letter of
\* each word between dots upper-cased
titleCasedLocalPart(u) ==
  [i \in 1..Len(u) |->
     IF u[i] = "." THEN " "
     ELSE IF i = 1 \/ u[i - 1] = "." THEN upperCh(u[i]) ELSE u[i]]

\* C11 as stated: when no line qualifies as a name and the first email's
\* local-part has 1 to 4 dot-separated words and no digit, the returned name is
\* the local-part with '.' replaced by a space and each word's first letter
\* upper-cased; with a digit or more than 4 words the name is empty
C11_EmailDerivedName ==
  pc = "done" /\ potentialNames = <<>> /\ emails # <<>> =>
    LET words == split(emailUsername, ".")
    IN  IF Len(words) >= 1 /\ Len(words) <= 4 /\ ~hasNumbers(emailUsername)
        THEN result.name = titleCasedLocalPart(emailUsername)
        ELSE result.name = <<>>

\* the local-part with each '.' replaced by a space and every character that
\* begins a run of letters, digits and underscores upper-cased
upperAtWordStarts(u) ==
  [i \in 1..Len(u) |->
     IF u[i] = "." THEN " "
     ELSE IF u[i] \in WordCh /\ (i = 1 \/ u[i - 1] \notin WordCh) THEN upperCh(u[i])
     ELSE u[i]]

\* C11 as amended: in the same case the returned name is the local-part with
\* '.' replaced by a space, every character that begins a run of word
\* characters upper-cased (so also the one after '-' or '+'), and then '-', '+'
\* and '_' removed and the spaces collapsed; it is empty when that derived name
\* has a digit or more than 4 space-separated words
C11_EmailDerivedNameSanitised ==
  pc = "done" /\ potentialNames = <<>> /\ emails # <<>> =>
    LET derived == trim(upperAtWordStarts(emailUsername))
        words == split(derived, " ")
    IN  IF Len(words) >= 1 /\ Len(words) <= 4 /\ ~hasNumbers(derived)
        THEN result.name = trim(collapseSpace(removeAll(derived, {"-", "+", "_"})))
        ELSE result.name = <<>>

\* Scenario B: jane.smith@example.com alone gives 'Jane Smith'
C11_Witness ==
  /\ pc = "done"
  /\ potentialNames = <<>>
  /\ emailUsername = <<"j","a","n","e",".","s","m","i","t","h">>
  /\ result.name = <<"J","a","n","e"," ","S","m","i","t","h">>

\* a line that is one word of capital letters only
isAcronymLine(line) ==
  LET t == trim(line)
  IN  Len(t) >= 2 /\ \A i \in 1..Len(t) : t[i] \in Upper

\* C12: a line that is a single all-capital acronym such as 'IBM' is never the
\* returned name, whatever else the card holds
C12_AcronymNeverName ==
  pc = "done" =>
    \A i \in 1..Len(lines) : isAcronymLine(lines[i]) => result.name # trim(lines[i])

\* a line that is a printed website beginning with 'www.'
isWwwLine(line) ==
  LET t == trim(line)
  IN  /\ startsWith(toLowerCase(t), <<"w","w","w",".">>)
      /\ Len(t) > 4
      /\ \A i \in 1..Len(t) : t[i] \notin Space

\* C13: when the card prints a website beginning with 'www.' on its own line,
\* the returned website is the first such line lower-cased, also when a dotted
\* token such as an email's local-part comes earlier in the text
C13_PrintedWebsiteReturned ==
  pc = "done" =>
    \A i \in 1..Len(lines) :
      (isWwwLine(lines[i]) /\ \A j \in 1..(i - 1) : ~isWwwLine(lines[j]))
        => result.website = toLowerCase(trim(lines[i]))

\* field f is taken from line i: the name when it is the on-card candidate
\* that matched the email, the company when it is text-derived, designation
\* and address always
takenFromLine(f, i) ==
  CASE f = "name" ->
         /\ name # <<>>
         /\ nameFromCard(emailUsername, potentialNames) = name
         /\ trim(lines[i]) = name
    [] f = "company" ->
         /\ company # <<>>
         /\ companyFromEmail = <<>> /\ companyFromWebsite = <<>>
         /\ trim(lines[i]) = company
    [] f = "designation" -> designation # <<>> /\ trim(lines[i]) = designation
    [] f = "address" -> address # <<>> /\ trim(lines[i]) = address

\* C14: no two of name, company, designation and address are taken from the
\* same source line
C14_Exclusion ==
  pc = "done" =>
    \A i \in 1..Len(lines) :
      \A f, g \in {"name", "company", "designation", "address"} :
        f # g => ~(takenFromLine(f, i) /\ takenFromLine(g, i))

\* a card with a dedicated line for each field: name, designation and address
\* come from three different lines, the company from the email
C14_Witness ==
  /\ pc = "done"
  /\ Len(lines) = 5
  /\ takenFromLine("name", 1)
  /\ takenFromLine("designation", 2)
  /\ lines[3] = <<"I","B","M">>
  /\ takenFromLine("address", 5)
  /\ company # <<>>
  /\ result.name # <<>> /\ result.designation # <<>> /\ result.address # <<>>

\* the layout of the test cards: name, designation, company, email, phone and
\* website on the first six lines
standardLayout ==
  /\ Len(lines) >= 6
  /\ looksLikeName(trim(lines[1]), emails, phones)
  /\ isDesignation(lines[2])
  /\ ~hasNumbers(lines[3]) /\ ~isDesignation(lines[3]) /\ ~includes(lines[3], <<"@">>)
  /\ Len(trim(lines[3])) > 1
  /\ lineHasEmail(lines[4], emails)
  /\ hasNumbers(lines[5]) /\ cleanPhones # <<>>
  /\ isWwwLine(lines[6])

\* C16: for a card laid out as name, designation, company, email, phone,
\* website on separate lines, the returned company is the text of the card's
\* company line
C16_CompanyIsCompanyLine ==
  pc = "done" /\ standardLayout => result.company = trim(lines[3])

\* the k-th on-card candidate, lower-cased and without its spaces, equals,
\* contains or is contained in the first email's local-part
candidateMatchesLocalPart(k) ==
  LET n == SelectSeq(toLowerCase(potentialNames[k].name), LAMBDA c : c \notin Space)
  IN  \/ emailUsername = n
      \/ includes(emailUsername, n)
      \/ includes(n, emailUsername)

\* the first on-card candidate, in line order, that matches the local-part
isFirstMatchingCandidate(k) ==
  /\ k \in 1..Len(potentialNames)
  /\ candidateMatchesLocalPart(k)
  /\ \A j \in 1..(k - 1) : ~candidateMatchesLocalPart(j)

\* C17 as stated: when an on-card candidate matches the first email's
\* local-part, the returned name is the first such candidate as printed
C17_OnCardNamePreferred ==
  pc = "done" /\ emailUsername # <<>> =>
    \A k \in 1..Len(potentialNames) :
      isFirstMatchingCandidate(k) => result.name = potentialNames[k].name

\* C17 as amended: the returned name is the first matching candidate after the
\* sanitiser, which removes hyphens, apostrophes and the other junk characters
C17_OnCardNamePreferredSanitised ==
  pc = "done" /\ emailUsername # <<>> =>
    \A k \in 1..Len(potentialNames) :
      isFirstMatchingCandidate(k) => result.name = cleanText(potentialNames[k].name)

\* two candidates of which only the second matches: it is the name, and it is
\* not the name the email would give
C17_Witness ==
  /\ pc = "done"
  /\ Len(potentialNames) = 2
  /\ isFirstMatchingCandidate(2)
  /\ result.name = potentialNames[2].name
  /\ result.name # cleanText(nameFromEmail(emailUsername))

\* the line prints a detected phone number, in whatever formatting: its digits
\* and '+' signs, taken in order, contain a cleaned phone
printsDetectedPhone(line) ==
  LET digitsOfLine == SelectSeq(line, LAMBDA c : c \in Digit \cup {"+"})
  IN  \E k \in 1..Len(cleanPhones) : includes(digitsOfLine, cleanPhones[k])

\* C18: a line that prints the detected phone number is never the address,
\* also when it is longer than 15 characters with a comma or an address
\* keyword
C18_PhoneLineNeverAddress ==
  pc = "done" =>
    \A i \in 1..Len(lines) :
      printsDetectedPhone(lines[i]) => address # trim(lines[i])

\* the line contains a designation keyword, case-insensitively, as a substring
hasDesignationKeyword(line) ==
  \E k \in 1..Len(designationKeywords) :
    includes(toLowerCase(line), toLowerCase(designationKeywords[k]))

\* the line contains the resolved name, a detected email, a detected phone
\* number or the detected website
holdsOtherField(line) ==
  \/ name # <<>> /\ includes(toLowerCase(line), toLowerCase(name))
  \/ \E k \in 1..Len(emails) : includes(toLowerCase(line), emails[k])
  \/ printsDetectedPhone(line)
  \/ websiteFromEmail # <<>> /\ includes(toLowerCase(line), toLowerCase(websiteFromEmail))
  \/ websiteFromText # <<>> /\ includes(toLowerCase(line), toLowerCase(websiteFromText))

\* C19: designation is the first line, over all lines, that contains a
\* designation keyword and holds no other field; a non-empty designation comes
\* from a keyword line and never from a line that contains a detected phone
\* number
C19_DesignationFirstKeywordLine ==
  pc = "done" =>
    /\ \A i \in 1..Len(lines) :
         ( /\ hasDesignationKeyword(lines[i]) /\ ~holdsOtherField(lines[i])
           /\ \A j \in 1..(i - 1) :
                ~(hasDesignationKeyword(lines[j]) /\ ~holdsOtherField(lines[j])) )
           => designation = trim(lines[i])
    /\ designation # <<>> =>
         \E i \in 1..Len(lines) :
           /\ designation = trim(lines[i])
           /\ hasDesignationKeyword(lines[i])
           /\ ~printsDetectedPhone(lines[i])

\* line i is the only line with a designation keyword, and of the other fields
\* it contains the resolved name only
onlyKeywordLineSharesName(i) ==
  /\ hasDesignationKeyword(lines[i])
  /\ \A j \in 1..Len(lines) : j # i => ~hasDesignationKeyword(lines[j])
  /\ name # <<>> /\ includes(toLowerCase(lines[i]), toLowerCase(name))
  /\ \A k \in 1..Len(emails) : ~includes(toLowerCase(lines[i]), emails[k])
  /\ ~printsDetectedPhone(lines[i])
  /\ ~(websiteFromEmail # <<>> /\ includes(toLowerCase(lines[i]), toLowerCase(websiteFromEmail)))
  /\ ~(websiteFromText # <<>> /\ includes(toLowerCase(lines[i]), toLowerCase(websiteFromText)))

\* C20: when the only keyword line also contains the resolved name, as in
\* 'John Doe, CEO' with name 'John Doe', the returned designation is non-empty
C20_SharedLineStillDesignation ==
  pc = "done" =>
    \A i \in 1..Len(lines) :
      onlyKeywordLineSharesName(i) => result.designation # <<>>

\* C15: every card of the list has an identifier different from that of every
\* other card of the list, also when two recognitions complete within the same
\* millisecond
C15_UniqueIds ==
  \A i, j \in 1..Len(cards) : i # j => cards[i].id # cards[j].id

\* C21: when designation and name are both non-empty in the returned record,
\* designation is not equal to name
C21_DesignationIsNotName ==
  pc = "done" /\ result.name # <<>> /\ result.designation # <<>> =>
    result.designation # result.name

\* the conditions of an address line: longer than 15 characters, a digit, a
\* comma or an address keyword, no detected email and no detected phone
meetsAddressConditions(line) ==
  LET t == trim(line)
  IN  /\ Len(t) > 15
      /\ hasNumbers(t)
      /\ (includes(t, <<",">>) \/ hasAddressKeyword(t))
      /\ \A k \in 1..Len(emails) : ~includes(toLowerCase(t), emails[k])
      /\ ~printsDetectedPhone(t)

\* C22: the returned address is the first line, scanning from the last line to
\* the first, that meets the address conditions; such a line is not passed over
\* for any other reason, and without such a line the address is empty
C22_AddressLastQualifyingLine ==
  pc = "done" =>
    /\ \A i \in 1..Len(lines) :
         ( /\ meetsAddressConditions(lines[i])
           /\ \A j \in (i + 1)..Len(lines) : ~meetsAddressConditions(lines[j]) )
           => result.address = cleanText(trim(lines[i]))
    /\ (\A i \in 1..Len(lines) : ~meetsAddressConditions(lines[i])) => result.address = <<>>

\* lines i..j of the card, trimmed and joined with a comma separator
joinedLines(i, j) ==
  LET RECURSIVE join(_)
      join(k) == IF k = j THEN trim(lines[k])
                 ELSE trim(lines[k]) \o <<",", " ">> \o join(k + 1)
  IN  join(i)

\* the joins of 2 or 3 consecutive lines that meet the address conditions
qualifyingJoins ==
  LET joins == UNION {{joinedLines(i, j) : j \in {k \in (i + 1)..(i + 2) : k <= Len(lines)}}
                        : i \in 1..Len(lines)}
  IN  {s \in joins : meetsAddressConditions(s)}

\* C23: when no single line qualifies as an address, the returned address is
\* the longest qualifying join of up to 3 consecutive lines, and it is empty
\* only when no join qualifies either
C23_MultiLineAddress ==
  pc = "done" /\ (\A i \in 1..Len(lines) : ~meetsAddressConditions(lines[i])) =>
    IF qualifyingJoins = {} THEN result.address = <<>>
    ELSE \E best \in qualifyingJoins :
           /\ \A other \in qualifyingJoins : Len(other) <= Len(best)
           /\ result.address = cleanText(best)

\* the card prints no website of its own: a line with a '.' is a detected
\* email and nothing else
printsNoWebsite ==
  \A i \in 1..Len(lines) :
    includes(lines[i], <<".">>) =>
      \E k \in 1..Len(emails) : toLowerCase(trim(lines[i])) = emails[k]

\* C24: when an email is detected and the card prints no website of its own,
\* the returned website is 'www.' followed by the domain of the first email,
\* whatever the shape of the local-part
C24_WebsiteFromEmailDomain ==
  pc = "done" /\ emails # <<>> /\ printsNoWebsite =>
    result.website = <<"w","w","w",".">> \o afterAt(emails[1])

\* the calls of handleImageCapture that have started and not yet settled
inFlight == {c \in CallIds : calls[c].pc \notin {"idle", "bound", "settled"}}

\* C25: isProcessing is true in every state in which a processImage call is in
\* flight (processingQueue > 0), whatever closure the capture was started
\* through
C25_ProcessingWhileInFlight ==
  processingQueue > 0 => isProcessing

\* C26: processingQueue is never negative and equals the number of calls of
\* handleImageCapture that have started and not yet settled; when every started
\* call has settled, by success or by failure, processingQueue is 0 and
\* isProcessing is false
C26_QueueCountsCallsInFlight ==
  /\ processingQueue >= 0
  /\ processingQueue = Cardinality(inFlight)
  /\ inFlight = {} => processingQueue = 0 /\ ~isProcessing

\* both calls have settled, one by success and one by failure
C26_Witness ==
  /\ \A c \in CallIds : calls[c].pc = "settled"
  /\ \E c \in CallIds : calls[c].outcome = "ok"
  /\ \E c \in CallIds : calls[c].outcome = "error"
  /\ processingQueue = 0
  /\ ~isProcessing

\* C27: a call of handleImageCapture whose processImage failed (empty image
\* data, image preparation, worker creation, parameter setting or recognition)
\* settles with the cards list unchanged; a call whose processImage succeeded
\* settles with exactly its card appended at the end, the cards already present
\* unchanged and in the same order; and no other step of a call touches cards
C27_CardsOnSettlement ==
  [][\A c \in CallIds :
       /\ calls[c].pc = "settle" /\ calls'[c].pc = "settled" =>
            IF calls[c].outcome = "ok"
            THEN cards' = Append(cards, calls[c].cardData[1])
            ELSE cards' = cards
       /\ calls'[c].pc # calls[c].pc /\ calls'[c].pc # "settled" =>
            cards' = cards]_vars

\* one call failed and settled, the other succeeded after it and its card is
\* the only card of the list
C27_Witness ==
  /\ \A c \in CallIds : calls[c].pc = "settled"
  /\ \E c \in CallIds : calls[c].outcome = "error"
  /\ \E c \in CallIds : calls[c].outcome = "ok"
  /\ Len(cards) = 1

\* a call of processImage is at or past its settlement
hasSettled(c) == calls[c].pc \in {"settle", "settled"}

\* C28: when a call of processImage settles, a worker it created has been
\* terminated exactly once, whether parameter setting failed, recognition failed
\* or recognition succeeded, and no worker is ever terminated twice; a call
\* that settles straight from validation or image preparation created no worker
C28_WorkerTerminatedOnce ==
  /\ [](\A c \in CallIds :
          /\ calls[c].terminations <= 1
          /\ hasSettled(c) =>
               /\ calls[c].worker # "running"
               /\ calls[c].terminations = IF calls[c].worker = "terminated" THEN 1 ELSE 0)
  /\ [][\A c \in CallIds :
          /\ calls[c].pc \in {"bound", "prepare"} /\ calls'[c].pc = "settle" =>
               calls'[c].worker = "none" /\ calls'[c].terminations = 0
          /\ calls[c].pc \in {"setParameters", "recognize"} =>
               calls'[c].pc \in {calls[c].pc, "recognize", "terminate"}
          /\ calls[c].worker = "running" /\ calls'[c].worker # "running" =>
               calls'[c].worker = "terminated"]_vars

\* one call settled after its worker was terminated following a failure, the
\* other settled without ever creating a worker
C28_Witness ==
  /\ \E c \in CallIds :
       /\ calls[c].pc = "settled"
       /\ calls[c].outcome = "error"
       /\ calls[c].worker = "terminated"
       /\ calls[c].terminations = 1
  /\ \E c \in CallIds :
       /\ calls[c].pc = "settled"
       /\ calls[c].worker = "none"

\* the stored coupon belongs to the signed-in user: it names the user's e-mail
\* address or this machine
couponBelongsToUser ==
  /\ user # NoUser
  /\ storedCoupon # NoCoupon
  /\ storedCoupon[1].userId = user \/ storedCoupon[1].machineId = machineId

\* the protected page is entered in this step
entersProtectedPage ==
  /\ route' \in {"protected", "/", "/login"}
  /\ UNCHANGED <<user, currentDate, machineId, signup, loading>>
  /\ route' # route \/ storedCoupon' # storedCoupon \/ toast' = "Access Expired"

\* C29: a signed-in user whose stored trial coupon belongs to them and whose
\* expiry date has passed is denied the protected page: entering it shows the
\* 'Access Expired' notice and redirects to '/'
C29_ExpiredTrialDenied ==
  [][couponBelongsToUser /\ currentDate > storedCoupon[1].expiryDate
       /\ entersProtectedPage
     => toast' = "Access Expired" /\ route' = "/"]_vars

\* handleSubmit takes a step: it starts, or it resumes after signUp
handleSubmitSteps == signup.pc \in {"idle", "signUp"} /\ signup'.pc # signup.pc

\* the submitted form must be refused: the confirmation differs from the
\* password, the coupon field holds a code other than BCS60, or it holds BCS60
\* and the stored coupon was used on this machine and has not expired
mustBeRefused ==
  \/ ~signup.passwordsMatch
  \/ signup.couponCode \notin {"", "BCS60"}
  \/ /\ signup.couponCode = "BCS60"
     /\ storedCoupon # NoCoupon
     /\ storedCoupon[1].machineId = machineId
     /\ currentDate < storedCoupon[1].expiryDate

\* C30: in sign-up the coupon record is written to local storage only after
\* signUp has succeeded. A submit with a mismatched password confirmation, with
\* a coupon code other than BCS60, or with BCS60 while the stored coupon was
\* used on this machine and has not expired, ends without calling signUp and
\* leaves the stored coupon unchanged; a failed signUp leaves it unchanged too;
\* and whenever handleSubmit has ended, loading is false
C30_CouponStoredAfterSignUp ==
  /\ [](signup.pc \in {"idle", "done"} => ~loading)
  /\ [](signup.signUpCalls > 0 =>
          signup.passwordsMatch /\ signup.couponCode \in {"", "BCS60"})
  /\ [][handleSubmitSteps =>
          /\ storedCoupon' # storedCoupon =>
               /\ signup.pc = "signUp"
               /\ signup'.signUpResult = "ok"
               /\ signup.signUpCalls = 1
               /\ signup.couponCode = "BCS60"
               /\ storedCoupon' = <<[code |-> "BCS60", userId |-> signup.email,
                                     machineId |-> machineId,
                                     expiryDate |-> currentDate + TrialDays * DayLength]>>
          /\ signup.pc = "idle" /\ mustBeRefused =>
               /\ signup'.pc = "done"
               /\ signup'.signUpCalls = 0
               /\ storedCoupon' = storedCoupon
               /\ ~loading'
          /\ signup'.signUpResult = "error" => storedCoupon' = storedCoupon
          /\ signup'.signUpCalls # signup.signUpCalls =>
               signup.pc = "idle" /\ signup'.pc = "signUp" /\ ~mustBeRefused]_vars

\* a second sign-up with BCS60 on the machine of an unexpired coupon has been
\* refused without a call of signUp, the coupon of the first sign-up still stored
C30_Witness ==
  /\ signup.pc = "done"
  /\ signup.couponCode = "BCS60"
  /\ signup.signUpCalls = 0
  /\ toast = "Coupon Already Used"
  /\ storedCoupon # NoCoupon
  /\ ~loading

====
